---- MODULE Spec2Model ----
(***************************************************************************)
(* Resource collection and extension-module placement of PyOxidizer:      *)
(*   pyoxidizer/src/py_packaging/embedded_resource.rs                     *)
(*       PrePackagedResources (collector + extension_module_states)       *)
(*   pyoxidizer/src/py_packaging/standalone_distribution.rs               *)
(*       StandaloneDistribution::as_python_executable_builder and         *)
(*       StandalonePythonExecutableBuilder                                *)
(*                                                                         *)
(* A method returning Result<()> on `&mut self` is an operator from the    *)
(* value of the object before the call to a record                        *)
(*     [ok |-> BOOLEAN, err |-> error, self |-> value after the call],    *)
(* so that `?` (return the error, keep what was mutated so far) and the    *)
(* fallback of add_distribution_extension_module compose as in the code.  *)
(***************************************************************************)
EXTENDS Integers, Sequences, FiniteSets, TLC

VARIABLES
    pc,                   \* "new": builder constructed; "ready": returned by as_python_executable_builder; "failed"
    policy,               \* packaging_policy.get_resources_policy(), also PythonResourceCollector's policy
    link_mode,            \* StandalonePythonExecutableBuilder.link_mode
    supports_in_memory,   \* .supports_in_memory_dynamically_linked_extension_loading
    file_loadable,        \* distribution.is_extension_module_file_loadable()
    resources,            \* PrePackagedResources.collector: name -> PrePackagedResource
    extension_module_states, \* PrePackagedResources.extension_module_states
    nops,                 \* number of operations applied after construction
    last,                 \* the last operation: its name, argument, result and what it changed
    embedded,             \* the EmbeddedPythonResources package() returned, NoValue before
    target_family,        \* cfg!(target_family): "windows" or "unix"
    archive,              \* the tar stream from_tar reads: its members in order
    fs,                   \* the files below extract_dir
    lock,                 \* the invocation holding the DistributionExtractLock, or NoValue
    frames                \* invocation of from_tar -> its position and locals

vars == <<pc, policy, link_mode, supports_in_memory, file_loadable,
          resources, extension_module_states, nops, last, embedded,
          target_family, archive, fs, lock, frames>>

builderVars == <<pc, policy, link_mode, supports_in_memory, file_loadable,
                 resources, extension_module_states, nops, last, embedded>>
extractVars == <<target_family, archive, fs, lock, frames>>

----------------------------------------------------------------------------
(* Bounds and input universes *)

MaxOps == 2

NoValue == "None"

\* no from_tar invocation is part of the builder's and the collection's life
NotExtracting ==
    /\ target_family = "unix"
    /\ archive = <<>>
    /\ fs = {}
    /\ lock = NoValue
    /\ frames = <<>>

Names == {"a", "b"}
LibNames == {"b", "z"}
AllNames == Names \cup LibNames
Prefixes == {"lib", "ext"}

\* python_packaging::policy::PythonResourcesPolicy
PythonResourcesPolicy ==
    {[kind |-> "InMemoryOnly", prefix |-> NoValue]}
    \cup [kind : {"FilesystemRelativeOnly", "PreferInMemoryFallbackFilesystemRelative"},
          prefix : Prefixes]

\* python_packaging::resource::LibraryDependency, as LinkEntry::to_library_dependency builds it
LibraryDependency ==
    [name : LibNames, static_library : {NoValue, "a"}, dynamic_library : {NoValue, "so"},
     framework : BOOLEAN, system : BOOLEAN]

\* python_packaging::resource_collection::ConcreteResourceLocation
InMemory == [kind |-> "InMemory", prefix |-> NoValue]
RelativePath(prefix) == [kind |-> "RelativePath", prefix |-> prefix]

\* DataLocation::resolve(): the bytes, or an error for a path that cannot be read
resolve(location) == location # "unreadable"

\* Result<()> of a `&mut self` method
Ok(s) == [ok |-> TRUE, err |-> NoValue, self |-> s]
Err(e, s) == [ok |-> FALSE, err |-> e, self |-> s]

\* BTreeMap: insert-or-replace, keys, retain
EmptyMap == [n \in {} |-> NoValue]
Insert(map, key, value) ==
    [n \in (DOMAIN map) \cup {key} |-> IF n = key THEN value ELSE map[n]]
Retain(map, keep) == [n \in (DOMAIN map) \cap keep |-> map[n]]

----------------------------------------------------------------------------
(* python_packaging::resource_collection::PythonResourceCollector.         *)
(* It lives in the python-packaging crate and is modelled from the         *)
(* specification: a mapping from resource name to one record, bound to a   *)
(* resources policy, where an add inserts the record or overwrites the     *)
(* facet it names.                                                         *)

\* PrePackagedResource { flavor, .. Default::default() }
DefaultResource(flavor) ==
    [flavor |-> flavor,
     in_memory_source |-> FALSE,
     relative_path_module_source |-> NoValue,
     in_memory_bytecode_source |-> FALSE,
     relative_path_bytecode_source |-> NoValue,
     in_memory_extension_module_shared_library |-> FALSE,
     shared_library_dependency_names |-> NoValue,
     relative_path_extension_module_shared_library |-> NoValue,
     in_memory_shared_library |-> FALSE,
     relative_path_shared_library |-> NoValue]

Entry(c, name, flavor) == IF name \in DOMAIN c THEN c[name] ELSE DefaultResource(flavor)

\* A location the collection's policy does not allow is a configuration error.
check_policy(location) ==
    CASE policy.kind = "InMemoryOnly" -> location.kind = "InMemory"
      [] policy.kind = "FilesystemRelativeOnly" -> location.kind = "RelativePath"
      [] OTHER -> TRUE

collector_add_python_module_source(c, name, location) ==
    IF ~check_policy(location) THEN Err("policy does not allow location", c)
    ELSE LET e == Entry(c, name, "Module")
         IN Ok(Insert(c, name,
                IF location.kind = "InMemory"
                THEN [e EXCEPT !.in_memory_source = TRUE]
                ELSE [e EXCEPT !.relative_path_module_source = location.prefix]))

collector_add_python_module_bytecode_from_source(c, name, location) ==
    IF ~check_policy(location) THEN Err("policy does not allow location", c)
    ELSE LET e == Entry(c, name, "Module")
         IN Ok(Insert(c, name,
                IF location.kind = "InMemory"
                THEN [e EXCEPT !.in_memory_bytecode_source = TRUE]
                ELSE [e EXCEPT !.relative_path_bytecode_source = location.prefix]))

collector_add_shared_library(c, name, location) ==
    IF ~check_policy(location) THEN Err("policy does not allow location", c)
    ELSE LET e == Entry(c, name, "SharedLibrary")
         IN Ok(Insert(c, name,
                IF location.kind = "InMemory"
                THEN [e EXCEPT !.in_memory_shared_library = TRUE]
                ELSE [e EXCEPT !.relative_path_shared_library = location.prefix]))

collector_add_in_memory_python_extension_module_shared_library(c, name, depends) ==
    IF ~check_policy(InMemory) THEN Err("policy does not allow location", c)
    ELSE LET e == Entry(c, name, "Extension")
         IN Ok(Insert(c, name,
                [e EXCEPT !.in_memory_extension_module_shared_library = TRUE,
                          !.shared_library_dependency_names = depends]))

collector_add_relative_path_python_extension_module(c, module, prefix) ==
    IF ~check_policy(RelativePath(prefix)) THEN Err("policy does not allow location", c)
    ELSE IF module.shared_library = NoValue THEN Err("no shared library data", c)
    ELSE LET e == Entry(c, module.name, "Extension")
         IN Ok(Insert(c, module.name,
                [e EXCEPT !.relative_path_extension_module_shared_library = prefix]))

\* The "statically linked" record variant of the resource mapping.
collector_add_builtin_python_extension_module(c, module) ==
    Ok(Insert(c, module.name, Entry(c, module.name, "BuiltinExtensionModule")))

collector_filter_resources_mut(c, keep) == Retain(c, keep)

\* super::filtering::filter_btreemap
filter_btreemap(map, names) == Retain(map, names)

----------------------------------------------------------------------------
(* embedded_resource.rs: PrePackagedResources.                             *)
(* self = [resources |-> collector mapping, extension_module_states |-> ..] *)

\* PrePackagedResources::new
PrePackagedResources_new == [resources |-> EmptyMap, extension_module_states |-> EmptyMap]

\* the collector call `self.collector.f(..)?` lifted to self
WithCollector(self, r) ==
    [ok |-> r.ok, err |-> r.err, self |-> [self EXCEPT !.resources = r.self]]

\* BTreeSet::from_iter(module.link_libraries.iter().filter_map(..)), one per link category
link_frameworks(links) ==
    {links[i].name : i \in {j \in DOMAIN links : links[j].framework}}
link_system_libraries(links) ==
    {links[i].name : i \in {j \in DOMAIN links : links[j].system}}
\* mutant: a library with a dynamic path is linked statically as well
link_static_libraries_or_dynamic(links) ==
    {links[i].name : i \in {j \in DOMAIN links :
        links[j].static_library # NoValue \/ links[j].dynamic_library # NoValue}}
link_static_libraries(links) ==
    {links[i].name : i \in {j \in DOMAIN links : links[j].static_library # NoValue}}
link_dynamic_libraries(links) ==
    {links[i].name : i \in {j \in DOMAIN links : links[j].dynamic_library # NoValue}}
\* BTreeSet::from_iter(module.link_libraries.iter().map(|l| l.name.clone()))
link_external_libraries(links) == {links[i].name : i \in DOMAIN links}

\* mutant: the object files are kept for a builtin_default module too
add_builtin_distribution_extension_module_keeping_objects(self, module) ==
    Ok([self EXCEPT !.extension_module_states =
        Insert(self.extension_module_states, module.name,
            [init_fn |-> module.init_fn,
             link_object_files |-> module.object_file_data,
             link_frameworks |-> link_frameworks(module.link_libraries),
             link_system_libraries |-> link_system_libraries(module.link_libraries),
             link_static_libraries |-> link_static_libraries(module.link_libraries),
             link_dynamic_libraries |-> link_dynamic_libraries(module.link_libraries),
             link_external_libraries |-> {}])])

add_builtin_distribution_extension_module(self, module) ==
    Ok([self EXCEPT !.extension_module_states =
        Insert(self.extension_module_states, module.name,
            [init_fn |-> module.init_fn,
             link_object_files |-> IF module.builtin_default THEN <<>> ELSE module.object_file_data,
             link_frameworks |-> link_frameworks(module.link_libraries),
             link_system_libraries |-> link_system_libraries(module.link_libraries),
             link_static_libraries |-> link_static_libraries(module.link_libraries),
             link_dynamic_libraries |-> link_dynamic_libraries(module.link_libraries),
             link_external_libraries |-> {}])])

\* the loop `for link in &module.link_libraries` of the in-memory add, from link i on:
\* returns at the first add_shared_library error, keeping the records added before it
RECURSIVE in_memory_depends(_, _, _, _)
in_memory_depends(c, links, i, depends) ==
    IF i > Len(links) THEN [ok |-> TRUE, err |-> NoValue, self |-> c, depends |-> depends]
    ELSE IF links[i].dynamic_library # NoValue
    THEN LET r == collector_add_shared_library(c, links[i].name, InMemory)
         IN IF ~r.ok THEN [ok |-> FALSE, err |-> r.err, self |-> r.self, depends |-> depends]
            ELSE in_memory_depends(r.self, links, i + 1, Append(depends, links[i].name))
    ELSE in_memory_depends(c, links, i + 1, depends)

\* mutant: the dependencies are registered before the shared library is looked at
add_in_memory_distribution_extension_module_late_check(self, module) ==
    LET d == in_memory_depends(self.resources, module.link_libraries, 1, <<>>)
    IN IF ~d.ok THEN WithCollector(self, d)
       ELSE IF module.shared_library = NoValue
       THEN Err("in-memory: lacks shared library data", [self EXCEPT !.resources = d.self])
       ELSE WithCollector(self,
                collector_add_in_memory_python_extension_module_shared_library(
                    d.self, module.name, d.depends))

\* mutant: the in-memory add also registers the module for static linking
add_in_memory_distribution_extension_module_and_state(self, module) ==
    IF module.shared_library = NoValue
    THEN Err("in-memory: lacks shared library data", self)
    ELSE LET d == in_memory_depends(self.resources, module.link_libraries, 1, <<>>)
             linked == add_builtin_distribution_extension_module(self, module).self
         IN IF ~d.ok THEN WithCollector(self, d)
            ELSE WithCollector(linked,
                    collector_add_in_memory_python_extension_module_shared_library(
                        d.self, module.name, d.depends))

add_in_memory_distribution_extension_module(self, module) ==
    IF module.shared_library = NoValue
    THEN Err("in-memory: lacks shared library data", self)
    ELSE IF ~resolve(module.shared_library)
    THEN Err("unable to read shared library data", self)
    ELSE LET d == in_memory_depends(self.resources, module.link_libraries, 1, <<>>)
         IN IF ~d.ok THEN WithCollector(self, d)
            ELSE WithCollector(self,
                    collector_add_in_memory_python_extension_module_shared_library(
                        d.self, module.name, d.depends))

\* the loop `for link in &module.link_libraries` of the relative-path add
RECURSIVE relative_path_depends(_, _, _, _)
relative_path_depends(c, links, i, prefix) ==
    IF i > Len(links) THEN Ok(c)
    ELSE IF links[i].dynamic_library # NoValue
    THEN LET r == collector_add_shared_library(c, links[i].name, RelativePath(prefix))
         IN IF ~r.ok THEN r ELSE relative_path_depends(r.self, links, i + 1, prefix)
    ELSE relative_path_depends(c, links, i + 1, prefix)

\* mutant: the module is installed without its library dependencies
add_relative_path_distribution_extension_module_alone(self, prefix, module) ==
    IF module.shared_library = NoValue
    THEN Err("path relative: lacks a shared library", self)
    ELSE WithCollector(self,
            collector_add_relative_path_python_extension_module(self.resources, module, prefix))

\* mutant: the library dependencies of the installed module are registered in memory
add_relative_path_distribution_extension_module_in_memory_depends(self, prefix, module) ==
    IF module.shared_library = NoValue
    THEN Err("path relative: lacks a shared library", self)
    ELSE LET r == collector_add_relative_path_python_extension_module(self.resources, module, prefix)
         IN IF ~r.ok THEN WithCollector(self, r)
            ELSE WithCollector(self, in_memory_depends(r.self, module.link_libraries, 1, <<>>))

add_relative_path_distribution_extension_module(self, prefix, module) ==
    IF module.shared_library = NoValue
    THEN Err("path relative: lacks a shared library", self)
    ELSE LET r == collector_add_relative_path_python_extension_module(self.resources, module, prefix)
         IN IF ~r.ok THEN WithCollector(self, r)
            ELSE WithCollector(self, relative_path_depends(r.self, module.link_libraries, 1, prefix))

\* mutant: the object file data is not looked at
add_builtin_extension_module_unchecked(self, module) ==
    LET r == collector_add_builtin_python_extension_module(self.resources, module)
    IN IF ~r.ok THEN WithCollector(self, r)
       ELSE Ok([resources |-> r.self,
                extension_module_states |->
                    Insert(self.extension_module_states, module.name,
                        [init_fn |-> module.init_fn,
                         link_object_files |-> module.object_file_data,
                         link_frameworks |-> {},
                         link_system_libraries |-> {},
                         link_static_libraries |-> {},
                         link_dynamic_libraries |-> {},
                         link_external_libraries |-> link_external_libraries(module.link_libraries)])])

\* mutant: the link libraries are sorted into categories as for a distribution module
add_builtin_extension_module_categorised(self, module) ==
    IF module.object_file_data = <<>>
    THEN Err("builtin: lacks object file data", self)
    ELSE LET r == collector_add_builtin_python_extension_module(self.resources, module)
         IN IF ~r.ok THEN WithCollector(self, r)
            ELSE Ok([resources |-> r.self,
                     extension_module_states |->
                        Insert(self.extension_module_states, module.name,
                            [init_fn |-> module.init_fn,
                             link_object_files |-> module.object_file_data,
                             link_frameworks |-> link_frameworks(module.link_libraries),
                             link_system_libraries |-> link_system_libraries(module.link_libraries),
                             link_static_libraries |-> link_static_libraries(module.link_libraries),
                             link_dynamic_libraries |-> link_dynamic_libraries(module.link_libraries),
                             link_external_libraries |-> {}])])

add_builtin_extension_module(self, module) ==
    IF module.object_file_data = <<>>
    THEN Err("builtin: lacks object file data", self)
    ELSE LET r == collector_add_builtin_python_extension_module(self.resources, module)
         IN IF ~r.ok THEN WithCollector(self, r)
            ELSE Ok([resources |-> r.self,
                     extension_module_states |->
                        Insert(self.extension_module_states, module.name,
                            [init_fn |-> module.init_fn,
                             link_object_files |-> module.object_file_data,
                             link_frameworks |-> {},
                             link_system_libraries |-> {},
                             link_static_libraries |-> {},
                             link_dynamic_libraries |-> {},
                             link_external_libraries |-> link_external_libraries(module.link_libraries)])])

add_in_memory_extension_module_shared_library(self, name) ==
    WithCollector(self,
        collector_add_in_memory_python_extension_module_shared_library(self.resources, name, <<>>))

add_relative_path_extension_module(self, em, prefix) ==
    WithCollector(self, collector_add_relative_path_python_extension_module(self.resources, em, prefix))

add_python_module_source(self, name, location) ==
    WithCollector(self, collector_add_python_module_source(self.resources, name, location))

add_python_module_bytecode_from_source(self, name, location) ==
    WithCollector(self,
        collector_add_python_module_bytecode_from_source(self.resources, name, location))

\* mutant: only the resource mapping is filtered
filter_from_files_resources_only(self, resolved) ==
    IF ~resolved.ok THEN Err("cannot resolve resource names", self)
    ELSE Ok([self EXCEPT !.resources =
                collector_filter_resources_mut(self.resources, resolved.names)])

\* resolved: the Result of resolve_resource_names_from_files(files, glob_patterns)
filter_from_files(self, resolved) ==
    IF ~resolved.ok THEN Err("cannot resolve resource names", self)
    ELSE LET resource_names == resolved.names
         IN Ok([resources |-> collector_filter_resources_mut(self.resources, resource_names),
                extension_module_states |->
                    filter_btreemap(self.extension_module_states, resource_names)])

iter_resources(self) == DOMAIN self.resources
builtin_extension_module_names(self) == DOMAIN self.extension_module_states

----------------------------------------------------------------------------
(* standalone_distribution.rs: StandaloneDistribution::as_python_executable_builder *)

TargetTriples ==
    {"x86_64-pc-windows-msvc", "x86_64-unknown-linux-musl", "x86_64-unknown-linux-gnu"}
ContainsPcWindows(triple) == triple = "x86_64-pc-windows-msvc"
ContainsLinuxMusl(triple) == triple = "x86_64-unknown-linux-musl"

\* the fields of StandaloneDistribution the builder's construction reads
StandaloneDistribution ==
    [target_triple : TargetTriples,
     libpython_shared_library : {NoValue, "python3.dll"},
     python_symbol_visibility : {"dllexport", "global-default"},
     extension_module_loading : {{"builtin"}, {"builtin", "shared-library"}}]

BinaryLibpythonLinkMode == {"Default", "Static", "Dynamic"}

supports_static_libpython(dist) ==
    IF ContainsPcWindows(dist.target_triple) THEN dist.libpython_shared_library = NoValue
    ELSE TRUE

supports_dynamic_libpython(dist) ==
    IF ContainsPcWindows(dist.target_triple) THEN dist.libpython_shared_library # NoValue
    ELSE IF ContainsLinuxMusl(dist.target_triple) THEN FALSE
    ELSE TRUE

resolve_link_mode_falling_back(dist, libpython_link_mode) ==
    IF libpython_link_mode # "Dynamic" /\ supports_static_libpython(dist)
    THEN [ok |-> TRUE, err |-> NoValue, link_mode |-> "Static"]
    ELSE IF supports_dynamic_libpython(dist)
    THEN [ok |-> TRUE, err |-> NoValue, link_mode |-> "Dynamic"]
    ELSE IF libpython_link_mode = "Dynamic"
    THEN [ok |-> TRUE, err |-> NoValue, link_mode |-> "Static"]
    ELSE [ok |-> FALSE, err |-> "no link modes supported", link_mode |-> NoValue]

\* `let link_mode = match libpython_link_mode { .. }`: [ok, err, link_mode]
resolve_link_mode(dist, libpython_link_mode) ==
    CASE libpython_link_mode = "Default" ->
            IF supports_static_libpython(dist)
            THEN [ok |-> TRUE, err |-> NoValue, link_mode |-> "Static"]
            ELSE IF supports_dynamic_libpython(dist)
            THEN [ok |-> TRUE, err |-> NoValue, link_mode |-> "Dynamic"]
            ELSE [ok |-> FALSE, err |-> "no link modes supported", link_mode |-> NoValue]
      [] libpython_link_mode = "Static" ->
            IF ~supports_static_libpython(dist)
            THEN [ok |-> FALSE, err |-> "static libpython not supported", link_mode |-> NoValue]
            ELSE [ok |-> TRUE, err |-> NoValue, link_mode |-> "Static"]
      [] OTHER ->
            IF ~supports_dynamic_libpython(dist)
            THEN [ok |-> FALSE, err |-> "dynamic libpython not supported", link_mode |-> NoValue]
            ELSE [ok |-> TRUE, err |-> NoValue, link_mode |-> "Dynamic"]

is_extension_module_file_loadable(dist) == "shared-library" \in dist.extension_module_loading

supports_in_memory_dynamically_linked_extension_loading(dist, target_triple) ==
    /\ ContainsPcWindows(target_triple)
    /\ dist.python_symbol_visibility = "dllexport"
    /\ "shared-library" \in dist.extension_module_loading

----------------------------------------------------------------------------
(* standalone_distribution.rs: StandalonePythonExecutableBuilder.          *)
(* self is the builder's `resources`; the other fields never change after  *)
(* construction and are the variables policy, link_mode,                   *)
(* supports_in_memory and file_loadable.  A builder result also lists the  *)
(* placements it attempted, in order, with the outcome of each.            *)

Attempt(placement, r) ==
    [ok |-> r.ok, err |-> r.err, self |-> r.self,
     attempts |-> <<[placement |-> placement, ok |-> r.ok, err |-> r.err]>>]

builder_add_builtin_distribution_extension_module(self, extension_module) ==
    Attempt("builtin", add_builtin_distribution_extension_module(self, extension_module))

\* mutant: the capability is checked after the module has been added
builder_add_in_memory_distribution_extension_module_unchecked(self, extension_module) ==
    LET r == add_in_memory_distribution_extension_module(self, extension_module)
    IN Attempt("in-memory",
        IF ~supports_in_memory
        THEN Err("loading extension modules from memory not supported", r.self)
        ELSE r)

\* mutant: the in-memory entry point installs the module beside the binary
builder_add_in_memory_distribution_extension_module_on_disk(self, extension_module) ==
    Attempt("in-memory",
        IF ~supports_in_memory
        THEN Err("loading extension modules from memory not supported", self)
        ELSE add_relative_path_distribution_extension_module(self, "lib", extension_module))

builder_add_in_memory_distribution_extension_module(self, extension_module) ==
    Attempt("in-memory",
        IF ~supports_in_memory
        THEN Err("loading extension modules from memory not supported", self)
        ELSE add_in_memory_distribution_extension_module(self, extension_module))

\* mutant: the distribution's ability to load extension modules from files is not consulted
builder_add_relative_path_distribution_extension_module_unchecked(self, prefix, extension_module) ==
    Attempt("relative-path",
        add_relative_path_distribution_extension_module(self, prefix, extension_module))

builder_add_relative_path_distribution_extension_module(self, prefix, extension_module) ==
    Attempt("relative-path",
        IF file_loadable
        THEN add_relative_path_distribution_extension_module(self, prefix, extension_module)
        ELSE Err("loading extension modules from files not supported", self))

\* mutant: when the retry fails as well, the error of the first attempt is returned
prefer_in_memory_fallback_first_error(self, prefix, extension_module) ==
    LET res == builder_add_in_memory_distribution_extension_module(self, extension_module)
    IN IF ~res.ok
       THEN LET retry == builder_add_relative_path_distribution_extension_module(
                            res.self, prefix, extension_module)
            IN [retry EXCEPT !.attempts = res.attempts \o retry.attempts,
                             !.err = IF retry.ok THEN NoValue ELSE res.err]
       ELSE res

\* the block "Try in-memory and fall back to file-based if that fails."
prefer_in_memory_fallback(self, prefix, extension_module) ==
    LET res == builder_add_in_memory_distribution_extension_module(self, extension_module)
    IN IF ~res.ok
       THEN LET retry == builder_add_relative_path_distribution_extension_module(
                            res.self, prefix, extension_module)
            IN [retry EXCEPT !.attempts = res.attempts \o retry.attempts]
       ELSE res

\* mutant: the FilesystemRelativeOnly arm does not look at the link mode
add_distribution_extension_module_by_policy_only(self, extension_module) ==
    CASE policy.kind = "InMemoryOnly" ->
            IF link_mode = "Static"
            THEN builder_add_builtin_distribution_extension_module(self, extension_module)
            ELSE builder_add_in_memory_distribution_extension_module(self, extension_module)
      [] policy.kind = "FilesystemRelativeOnly" ->
            builder_add_relative_path_distribution_extension_module(
                self, policy.prefix, extension_module)
      [] OTHER ->
            IF link_mode = "Static"
            THEN builder_add_builtin_distribution_extension_module(self, extension_module)
            ELSE prefer_in_memory_fallback(self, policy.prefix, extension_module)

\* `match self.packaging_policy.get_resources_policy().clone() { .. }`
add_distribution_extension_module_by_policy(self, extension_module) ==
    CASE policy.kind = "InMemoryOnly" ->
            IF link_mode = "Static"
            THEN builder_add_builtin_distribution_extension_module(self, extension_module)
            ELSE builder_add_in_memory_distribution_extension_module(self, extension_module)
      [] policy.kind = "FilesystemRelativeOnly" ->
            IF link_mode = "Static"
            THEN builder_add_builtin_distribution_extension_module(self, extension_module)
            ELSE builder_add_relative_path_distribution_extension_module(
                    self, policy.prefix, extension_module)
      [] OTHER ->
            IF link_mode = "Static"
            THEN builder_add_builtin_distribution_extension_module(self, extension_module)
            ELSE prefer_in_memory_fallback(self, policy.prefix, extension_module)

\* mutant: the "Builtins always get added as such" shortcut is missing
add_distribution_extension_module_without_shortcut(self, extension_module) ==
    add_distribution_extension_module_by_policy(self, extension_module)

builder_add_distribution_extension_module(self, extension_module) ==
    IF extension_module.builtin_default
    THEN builder_add_builtin_distribution_extension_module(self, extension_module)
    ELSE add_distribution_extension_module_by_policy(self, extension_module)

\* the in-memory arm of the user-supplied adds: `.resolve()?`, then the collection's add
add_in_memory_resolved(self, extension_module) ==
    Attempt("in-memory",
        IF ~resolve(extension_module.shared_library)
        THEN Err("unable to read shared library data", self)
        ELSE add_in_memory_extension_module_shared_library(self, extension_module.name))

builder_add_in_memory_dynamic_extension_module(self, extension_module) ==
    IF supports_in_memory /\ extension_module.shared_library # NoValue
    THEN add_in_memory_resolved(self, extension_module)
    ELSE IF extension_module.object_file_data # <<>>
    THEN Attempt("builtin", add_builtin_extension_module(self, extension_module))
    ELSE IF extension_module.shared_library # NoValue
    THEN Attempt("none", Err("loading extension modules from memory not supported", self))
    ELSE Attempt("none", Err("cannot load from memory due to missing object files", self))

builder_add_relative_path_dynamic_extension_module(self, prefix, extension_module) ==
    IF extension_module.shared_library = NoValue
    THEN Attempt("none", Err("extension module instance has no shared library data", self))
    ELSE IF file_loadable
    THEN Attempt("relative-path",
            add_relative_path_extension_module(self, extension_module, prefix))
    ELSE Attempt("none", Err("loading extension modules from files not supported", self))

\* mutant: the capability is not consulted
add_dynamic_in_memory_only_unchecked(self, extension_module) ==
    Attempt("in-memory",
        add_in_memory_extension_module_shared_library(self, extension_module.name))

\* arm PythonResourcesPolicy::InMemoryOnly of add_dynamic_extension_module
add_dynamic_in_memory_only(self, extension_module) ==
    IF supports_in_memory
    THEN add_in_memory_resolved(self, extension_module)
    ELSE Attempt("none",
            Err("in-memory-only policy but in-memory importing not supported", self))

\* arm PythonResourcesPolicy::FilesystemRelativeOnly of add_dynamic_extension_module
add_dynamic_filesystem_relative_only(self, prefix, extension_module) ==
    IF file_loadable
    THEN Attempt("relative-path",
            add_relative_path_extension_module(self, extension_module, prefix))
    ELSE Attempt("none",
            Err("filesystem-relative-only policy but file-based loading not supported", self))

\* arm PythonResourcesPolicy::PreferInMemoryFallbackFilesystemRelative of add_dynamic_extension_module
add_dynamic_prefer_in_memory(self, prefix, extension_module) ==
    IF supports_in_memory
    THEN add_in_memory_resolved(self, extension_module)
    ELSE IF file_loadable
    THEN Attempt("relative-path",
            add_relative_path_extension_module(self, extension_module, prefix))
    ELSE Attempt("none",
            Err("could not find a mechanism to add an extension module", self))

builder_add_dynamic_extension_module(self, extension_module) ==
    IF extension_module.shared_library = NoValue
    THEN Attempt("none", Err("extension module instance has no shared library data", self))
    ELSE CASE policy.kind = "InMemoryOnly" ->
                add_dynamic_in_memory_only(self, extension_module)
           [] policy.kind = "FilesystemRelativeOnly" ->
                add_dynamic_filesystem_relative_only(self, policy.prefix, extension_module)
           [] OTHER ->
                add_dynamic_prefer_in_memory(self, policy.prefix, extension_module)

builder_add_static_extension_module(self, extension_module) ==
    Attempt("builtin", add_builtin_extension_module(self, extension_module))

builder_filter_resources_from_files(self, resolved) ==
    Attempt("none", filter_from_files(self, resolved))

\* PythonBinaryBuilder::add_module_source (binary.rs): the location the policy prefers
builder_add_module_source(self, name) ==
    IF policy.kind = "FilesystemRelativeOnly"
    THEN add_python_module_source(self, name, RelativePath(policy.prefix))
    ELSE add_python_module_source(self, name, InMemory)

\* PythonBinaryBuilder::add_module_bytecode (binary.rs): the location the policy prefers
builder_add_module_bytecode(self, name) ==
    IF policy.kind = "FilesystemRelativeOnly"
    THEN add_python_module_bytecode_from_source(self, name, RelativePath(policy.prefix))
    ELSE add_python_module_bytecode_from_source(self, name, InMemory)

\* `for ext in ..resolve_python_extension_modules(..)? { self.add_distribution_extension_module(&ext)?; }`
RECURSIVE add_distribution_extension_modules(_, _, _)
add_distribution_extension_modules(self, exts, i) ==
    IF i > Len(exts) THEN Ok(self)
    ELSE LET r == builder_add_distribution_extension_module(self, exts[i])
         IN IF ~r.ok THEN Err(r.err, r.self)
            ELSE add_distribution_extension_modules(r.self, exts, i + 1)

\* `for source in self.distribution.source_modules()? { self.add_module_source(&source)?;
\* self.add_module_bytecode(&bytecode)?; }`, the policy's filter accepting both
RECURSIVE add_distribution_source_modules(_, _, _)
add_distribution_source_modules(self, sources, i) ==
    IF i > Len(sources) THEN Ok(self)
    ELSE LET r == builder_add_module_source(self, sources[i])
         IN IF ~r.ok THEN r
            ELSE LET b == builder_add_module_bytecode(r.self, sources[i])
                 IN IF ~b.ok THEN b
                    ELSE add_distribution_source_modules(b.self, sources, i + 1)

\* The distribution carries no package resource data: resource_datas() is empty.
add_distribution_resources(self, exts, sources) ==
    LET r == add_distribution_extension_modules(self, exts, 1)
    IN IF ~r.ok THEN r ELSE add_distribution_source_modules(r.self, sources, 1)

----------------------------------------------------------------------------
(* Inputs *)

\* python_packaging::resource::PythonExtensionModule, the fields the operations read
PythonExtensionModule(names, init_fns, builtin_defaults, object_files, link_lists) ==
    [name : names,
     init_fn : init_fns,
     builtin_default : builtin_defaults,
     object_file_data : object_files,
     shared_library : {NoValue, "so"},
     link_libraries : link_lists]

DynamicDependency ==
    [name |-> "z", static_library |-> NoValue, dynamic_library |-> "so",
     framework |-> FALSE, system |-> FALSE]

\* extension modules of a distribution, as from_directory builds them
DistributionExtensionModules ==
    PythonExtensionModule(Names, {"PyInit"}, BOOLEAN, {<<"o1">>}, {<<>>, <<DynamicDependency>>})

\* extension modules found by scanning installed packages
UserExtensionModules ==
    PythonExtensionModule({"a"}, {"PyInit"}, {FALSE}, {<<>>, <<"o1">>}, {<<>>})

\* install prefixes a caller names explicitly
UserPrefixes == {"lib"}

\* distribution modules with every kind of declared link dependency: one dependency
\* with any flags, or two that are each of one category
SingleCategoryDependencies ==
    {d \in LibraryDependency :
        Cardinality({c \in {"framework", "system", "static", "dynamic"} :
            \/ c = "framework" /\ d.framework
            \/ c = "system" /\ d.system
            \/ c = "static" /\ d.static_library # NoValue
            \/ c = "dynamic" /\ d.dynamic_library # NoValue}) = 1}
DeclaredLinkLists ==
    {<<d>> : d \in LibraryDependency}
    \cup {<<d1, d2>> : d1 \in SingleCategoryDependencies, d2 \in SingleCategoryDependencies}
DependentExtensionModules ==
    PythonExtensionModule({"a"}, {"PyInit"}, BOOLEAN, {<<"o1">>}, DeclaredLinkLists)

\* user-supplied modules whose shared library is a path that cannot be read
UnreadableExtensionModules ==
    {[m EXCEPT !.shared_library = "unreadable"] :
        m \in PythonExtensionModule({"a"}, {"PyInit"}, {FALSE}, {<<>>, <<"o1">>}, {<<>>})}

\* extension modules handed to PrePackagedResources directly
ResourceExtensionModules ==
    PythonExtensionModule(Names, {"PyInit"}, BOOLEAN, {<<>>, <<"o1">>}, {<<>>, <<DynamicDependency>>})

\* what resolve_python_extension_modules selects: at most one variant per name,
\* in the order of the distribution's BTreeMap
SelectedExtensionModules ==
    {<<>>}
    \cup {<<m>> : m \in DistributionExtensionModules}
    \cup {<<m1, m2>> : m1 \in {m \in DistributionExtensionModules : m.name = "a" /\ m.link_libraries = <<>>},
                       m2 \in {m \in DistributionExtensionModules : m.name = "b" /\ m.link_libraries = <<>>}}

\* distribution.source_modules() accepted by the policy
SourceModules == <<"os">>

\* results of resolve_resource_names_from_files: the names, or an error
ResourceNameSets == {{}, {"a"}, {"b", "z", "os"}, {"a", "b", "z", "os"}}
ResolvedResourceNames ==
    [ok : {TRUE}, names : ResourceNameSets] \cup {[ok |-> FALSE, names |-> {}]}

----------------------------------------------------------------------------
(* The builder: construction, distribution resources, then user operations *)

Self == [resources |-> resources, extension_module_states |-> extension_module_states]

Constructed ==
    [op |-> "new", module |-> NoValue, arg |-> NoValue, ok |-> TRUE, err |-> NoValue,
     attempts |-> <<>>, pre |-> PrePackagedResources_new]

\* the builder as_python_executable_builder constructs, before add_distribution_resources
Init ==
    \E dist \in StandaloneDistribution, libpython_link_mode \in BinaryLibpythonLinkMode,
       target_triple \in TargetTriples, pol \in PythonResourcesPolicy :
        LET lm == resolve_link_mode(dist, libpython_link_mode)
        IN /\ lm.ok
           /\ pc = "new"
           /\ policy = pol
           /\ link_mode = lm.link_mode
           /\ supports_in_memory =
                supports_in_memory_dynamically_linked_extension_loading(dist, target_triple)
           /\ file_loadable = is_extension_module_file_loadable(dist)
           /\ resources = PrePackagedResources_new.resources
           /\ extension_module_states = PrePackagedResources_new.extension_module_states
           /\ nops = 0
           /\ last = Constructed
           /\ embedded = NoValue
           /\ NotExtracting

Record(op, module, arg, r, attempts) ==
    /\ resources' = r.self.resources
    /\ extension_module_states' = r.self.extension_module_states
    /\ last' = [op |-> op, module |-> module, arg |-> arg, ok |-> r.ok, err |-> r.err,
                attempts |-> attempts, pre |-> Self]
    /\ UNCHANGED <<policy, link_mode, supports_in_memory, file_loadable, embedded>>
    /\ UNCHANGED extractVars

AddDistributionResources ==
    /\ pc = "new"
    /\ \E exts \in SelectedExtensionModules :
        LET r == add_distribution_resources(Self, exts, SourceModules)
        IN /\ Record("add_distribution_resources", NoValue, exts, r, <<>>)
           /\ pc' = IF r.ok THEN "ready" ELSE "failed"
           /\ nops' = nops

CanOperate == pc = "ready" /\ nops < MaxOps

Operate(op, module, arg, r) ==
    /\ Record(op, module, arg, r, r.attempts)
    /\ nops' = nops + 1
    /\ pc' = pc

AddDistributionExtensionModule ==
    /\ CanOperate
    /\ \E m \in DistributionExtensionModules :
        Operate("add_distribution_extension_module", m, NoValue,
                builder_add_distribution_extension_module(Self, m))

AddDynamicExtensionModule ==
    /\ CanOperate
    /\ \E m \in UserExtensionModules :
        Operate("add_dynamic_extension_module", m, NoValue,
                builder_add_dynamic_extension_module(Self, m))

AddInMemoryDynamicExtensionModule ==
    /\ CanOperate
    /\ \E m \in UserExtensionModules :
        Operate("add_in_memory_dynamic_extension_module", m, NoValue,
                builder_add_in_memory_dynamic_extension_module(Self, m))

AddRelativePathDynamicExtensionModule ==
    /\ CanOperate
    /\ \E m \in UserExtensionModules, prefix \in UserPrefixes :
        Operate("add_relative_path_dynamic_extension_module", m, prefix,
                builder_add_relative_path_dynamic_extension_module(Self, prefix, m))

AddStaticExtensionModule ==
    /\ CanOperate
    /\ \E m \in UserExtensionModules :
        Operate("add_static_extension_module", m, NoValue,
                builder_add_static_extension_module(Self, m))

FilterResourcesFromFiles ==
    /\ CanOperate
    /\ \E resolved \in ResolvedResourceNames :
        Operate("filter_resources_from_files", NoValue, resolved,
                builder_filter_resources_from_files(Self, resolved))

Next ==
    \/ AddDistributionResources
    \/ AddDistributionExtensionModule
    \/ AddDynamicExtensionModule
    \/ AddInMemoryDynamicExtensionModule
    \/ AddRelativePathDynamicExtensionModule
    \/ AddStaticExtensionModule
    \/ FilterResourcesFromFiles

Spec == Init /\ [][Next]_vars

----------------------------------------------------------------------------
(* PrePackagedResources on its own: PrePackagedResources::new(policy, ..)  *)
(* followed by its operations in any order.                                *)

InitResources ==
    /\ pc = "resources"
    /\ policy \in PythonResourcesPolicy
    /\ link_mode = NoValue
    /\ supports_in_memory = FALSE
    /\ file_loadable = FALSE
    /\ resources = PrePackagedResources_new.resources
    /\ extension_module_states = PrePackagedResources_new.extension_module_states
    /\ nops = 0
    /\ last = Constructed
    /\ embedded = NoValue
    /\ NotExtracting

CanCall == pc = "resources" /\ nops < MaxOps

Call(op, module, arg, r) ==
    /\ Record(op, module, arg, r, <<>>)
    /\ nops' = nops + 1
    /\ pc' = pc

CallAddBuiltinDistributionExtensionModule ==
    /\ CanCall
    /\ \E m \in ResourceExtensionModules :
        Call("add_builtin_distribution_extension_module", m, NoValue,
             add_builtin_distribution_extension_module(Self, m))

CallAddInMemoryDistributionExtensionModule ==
    /\ CanCall
    /\ \E m \in ResourceExtensionModules :
        Call("add_in_memory_distribution_extension_module", m, NoValue,
             add_in_memory_distribution_extension_module(Self, m))

CallAddRelativePathDistributionExtensionModule ==
    /\ CanCall
    /\ \E m \in ResourceExtensionModules, prefix \in Prefixes :
        Call("add_relative_path_distribution_extension_module", m, prefix,
             add_relative_path_distribution_extension_module(Self, prefix, m))

CallAddBuiltinExtensionModule ==
    /\ CanCall
    /\ \E m \in ResourceExtensionModules :
        Call("add_builtin_extension_module", m, NoValue,
             add_builtin_extension_module(Self, m))

CallAddInMemoryExtensionModuleSharedLibrary ==
    /\ CanCall
    /\ \E m \in ResourceExtensionModules :
        Call("add_in_memory_extension_module_shared_library", m, NoValue,
             add_in_memory_extension_module_shared_library(Self, m.name))

CallAddRelativePathExtensionModule ==
    /\ CanCall
    /\ \E m \in ResourceExtensionModules, prefix \in Prefixes :
        Call("add_relative_path_extension_module", m, prefix,
             add_relative_path_extension_module(Self, m, prefix))

CallFilterFromFiles ==
    /\ CanCall
    /\ \E resolved \in ResolvedResourceNames :
        Call("filter_from_files", NoValue, resolved, filter_from_files(Self, resolved))

NextResources ==
    \/ CallAddBuiltinDistributionExtensionModule
    \/ CallAddInMemoryDistributionExtensionModule
    \/ CallAddRelativePathDistributionExtensionModule
    \/ CallAddBuiltinExtensionModule
    \/ CallAddInMemoryExtensionModuleSharedLibrary
    \/ CallAddRelativePathExtensionModule
    \/ CallFilterFromFiles

SpecResources == InitResources /\ [][NextResources]_vars

----------------------------------------------------------------------------
(* One call of an extension module entry point of PythonBinaryBuilder on   *)
(* the builder as_python_executable_builder returns for a distribution     *)
(* whose policy selects no extension module, for every payload a module    *)
(* can carry.                                                              *)

InitEntryPoints ==
    \E dist \in StandaloneDistribution, libpython_link_mode \in BinaryLibpythonLinkMode,
       target_triple \in TargetTriples, pol \in PythonResourcesPolicy :
        LET lm == resolve_link_mode(dist, libpython_link_mode)
        IN /\ lm.ok
           /\ pc = "entry"
           /\ policy = pol
           /\ link_mode = lm.link_mode
           /\ supports_in_memory =
                supports_in_memory_dynamically_linked_extension_loading(dist, target_triple)
           /\ file_loadable = is_extension_module_file_loadable(dist)
           /\ LET r == add_distribution_resources(PrePackagedResources_new, <<>>, SourceModules)
              IN /\ r.ok
                 /\ resources = r.self.resources
                 /\ extension_module_states = r.self.extension_module_states
           /\ nops = 0
           /\ last = [Constructed EXCEPT !.op = "add_distribution_resources", !.arg = <<>>]
           /\ embedded = NoValue
           /\ NotExtracting

CanEnter == pc = "entry"

Enter(op, module, arg, r) ==
    /\ Record(op, module, arg, r, r.attempts)
    /\ nops' = nops + 1
    /\ pc' = "called"

EnterAddBuiltinDistributionExtensionModule ==
    /\ CanEnter
    /\ \E m \in ResourceExtensionModules \cup DependentExtensionModules :
        Enter("add_builtin_distribution_extension_module", m, NoValue,
              builder_add_builtin_distribution_extension_module(Self, m))

EnterAddInMemoryDistributionExtensionModule ==
    /\ CanEnter
    /\ \E m \in ResourceExtensionModules \cup DependentExtensionModules :
        Enter("add_in_memory_distribution_extension_module", m, NoValue,
              builder_add_in_memory_distribution_extension_module(Self, m))

EnterAddRelativePathDistributionExtensionModule ==
    /\ CanEnter
    /\ \E m \in ResourceExtensionModules \cup DependentExtensionModules, prefix \in Prefixes :
        Enter("add_relative_path_distribution_extension_module", m, prefix,
              builder_add_relative_path_distribution_extension_module(Self, prefix, m))

EnterAddDistributionExtensionModule ==
    /\ CanEnter
    /\ \E m \in ResourceExtensionModules :
        Enter("add_distribution_extension_module", m, NoValue,
              builder_add_distribution_extension_module(Self, m))

EnterAddDynamicExtensionModule ==
    /\ CanEnter
    /\ \E m \in ResourceExtensionModules \cup UnreadableExtensionModules :
        Enter("add_dynamic_extension_module", m, NoValue,
              builder_add_dynamic_extension_module(Self, m))

EnterAddInMemoryDynamicExtensionModule ==
    /\ CanEnter
    /\ \E m \in ResourceExtensionModules \cup UnreadableExtensionModules :
        Enter("add_in_memory_dynamic_extension_module", m, NoValue,
              builder_add_in_memory_dynamic_extension_module(Self, m))

EnterAddRelativePathDynamicExtensionModule ==
    /\ CanEnter
    /\ \E m \in ResourceExtensionModules, prefix \in Prefixes :
        Enter("add_relative_path_dynamic_extension_module", m, prefix,
              builder_add_relative_path_dynamic_extension_module(Self, prefix, m))

EnterAddStaticExtensionModule ==
    /\ CanEnter
    /\ \E m \in ResourceExtensionModules :
        Enter("add_static_extension_module", m, NoValue,
              builder_add_static_extension_module(Self, m))

NextEntryPoints ==
    \/ EnterAddBuiltinDistributionExtensionModule
    \/ EnterAddInMemoryDistributionExtensionModule
    \/ EnterAddRelativePathDistributionExtensionModule
    \/ EnterAddDistributionExtensionModule
    \/ EnterAddDynamicExtensionModule
    \/ EnterAddInMemoryDynamicExtensionModule
    \/ EnterAddRelativePathDynamicExtensionModule
    \/ EnterAddStaticExtensionModule

SpecEntryPoints == InitEntryPoints /\ [][NextEntryPoints]_vars

----------------------------------------------------------------------------
(* standalone_distribution.rs: as_python_executable_builder called on a    *)
(* distribution, failing resolutions of the link mode included.            *)

InitLinkMode ==
    /\ pc = "distribution"
    /\ policy = NoValue
    /\ link_mode = NoValue
    /\ supports_in_memory = FALSE
    /\ file_loadable = FALSE
    /\ resources = PrePackagedResources_new.resources
    /\ extension_module_states = PrePackagedResources_new.extension_module_states
    /\ nops = 0
    /\ last = Constructed
    /\ embedded = NoValue
    /\ NotExtracting

\* as_python_executable_builder up to the construction of the builder; its last
\* statement, builder.add_distribution_resources, is AddDistributionResources
AsPythonExecutableBuilder ==
    /\ pc = "distribution"
    /\ \E dist \in StandaloneDistribution, libpython_link_mode \in BinaryLibpythonLinkMode,
          target_triple \in TargetTriples, pol \in PythonResourcesPolicy :
        LET lm == resolve_link_mode(dist, libpython_link_mode)
            call == [dist |-> dist, libpython_link_mode |-> libpython_link_mode,
                     target_triple |-> target_triple]
        IN /\ last' = [Constructed EXCEPT !.op = "as_python_executable_builder",
                                          !.arg = call, !.ok = lm.ok, !.err = lm.err]
           /\ IF lm.ok
              THEN /\ pc' = "new"
                   /\ policy' = pol
                   /\ link_mode' = lm.link_mode
                   /\ supports_in_memory' =
                        supports_in_memory_dynamically_linked_extension_loading(dist,
                                                                                target_triple)
                   /\ file_loadable' = is_extension_module_file_loadable(dist)
              ELSE /\ pc' = "failed"
                   /\ UNCHANGED <<policy, link_mode, supports_in_memory, file_loadable>>
    /\ UNCHANGED <<resources, extension_module_states, nops, embedded>>
    /\ UNCHANGED extractVars

NextLinkMode ==
    \/ AsPythonExecutableBuilder
    \/ AddDistributionResources

SpecLinkMode == InitLinkMode /\ [][NextLinkMode]_vars

----------------------------------------------------------------------------
(* embedded_resource.rs: PrePackagedResources::package and                 *)
(* EmbeddedPythonResources.  PreparedPythonResources, the scan for         *)
(* __file__ and the packed resources writer live in the python-packaging   *)
(* crate and are modelled from the specification.                          *)

\* BTreeMap and BTreeSet iterate in ascending key order
KeyOrder == <<"a", "b", "os", "z">>
Keys(map) == SelectSeq(KeyOrder, LAMBDA k : k \in DOMAIN map)

\* the record of the resource table made from a collected record: the bytecode
\* requests are resolved by the compiler, files to install move to extra_files
PreparedResource(r) ==
    [flavor |-> r.flavor,
     in_memory_source |-> r.in_memory_source,
     in_memory_bytecode |-> r.in_memory_bytecode_source,
     in_memory_extension_module_shared_library |-> r.in_memory_extension_module_shared_library,
     shared_library_dependency_names |-> r.shared_library_dependency_names,
     in_memory_shared_library |-> r.in_memory_shared_library,
     relative_path_module_source |-> r.relative_path_module_source,
     relative_path_module_bytecode |-> r.relative_path_bytecode_source,
     relative_path_extension_module_shared_library |->
        r.relative_path_extension_module_shared_library,
     relative_path_shared_library |-> r.relative_path_shared_library]

\* the files a prepared record installs: <<path, data, executable>>
ExtraFilesOf(name, r) ==
    (IF r.relative_path_module_source = NoValue THEN <<>>
     ELSE <<[path |-> <<r.relative_path_module_source, name, "py">>,
             data |-> <<name, "source">>, executable |-> FALSE]>>)
    \o (IF r.relative_path_module_bytecode = NoValue THEN <<>>
        ELSE <<[path |-> <<r.relative_path_module_bytecode, name, "pyc">>,
                data |-> <<name, "bytecode">>, executable |-> FALSE]>>)
    \o (IF r.relative_path_extension_module_shared_library = NoValue THEN <<>>
        ELSE <<[path |-> <<r.relative_path_extension_module_shared_library, name, "so">>,
                data |-> <<name, "extension">>, executable |-> TRUE]>>)
    \o (IF r.relative_path_shared_library = NoValue THEN <<>>
        ELSE <<[path |-> <<r.relative_path_shared_library, name, "lib">>,
                data |-> <<name, "library">>, executable |-> TRUE]>>)

RECURSIVE ExtraFiles(_, _, _)
ExtraFiles(table, keys, i) ==
    IF i > Len(keys) THEN <<>>
    ELSE ExtraFilesOf(keys[i], table[keys[i]]) \o ExtraFiles(table, keys, i + 1)

\* PythonResourceCollector::to_prepared_python_resources(python_exe); compiled is
\* whether the bytecode compiler run with python_exe succeeds
to_prepared_python_resources(c, compiled) ==
    IF ~compiled
    THEN [ok |-> FALSE, err |-> "bytecode compilation failed", value |-> NoValue]
    ELSE LET table == [n \in DOMAIN c |-> PreparedResource(c[n])]
         IN [ok |-> TRUE, err |-> NoValue,
             value |-> [resources |-> table,
                        extra_files |-> ExtraFiles(table, Keys(table), 1)]]

\* the warnings package() logs for the modules find_dunder_file returned
RECURSIVE dunder_file_warnings(_, _)
dunder_file_warnings(found, i) ==
    IF i > Len(found) THEN <<>>
    ELSE <<<<"contains __file__", found[i]>>>> \o dunder_file_warnings(found, i + 1)

\* mutant: extension_module_states is moved into the packaged value, not cloned
package_moving_states(self, scan, compiled) ==
    IF ~scan.ok
    THEN [ok |-> FALSE, err |-> "find_dunder_file failed", warnings |-> <<>>,
          self |-> self, value |-> NoValue]
    ELSE LET prepared == to_prepared_python_resources(self.resources, compiled)
         IN IF ~prepared.ok
            THEN [ok |-> FALSE, err |-> prepared.err, warnings |-> <<>>,
                  self |-> self, value |-> NoValue]
            ELSE [ok |-> TRUE, err |-> NoValue, warnings |-> <<>>,
                  self |-> [self EXCEPT !.extension_module_states = EmptyMap],
                  value |-> [resources |-> prepared.value,
                             extension_modules |-> self.extension_module_states]]

\* scan: the Result of self.collector.find_dunder_file(), [ok, modules]
package(self, scan, compiled) ==
    IF ~scan.ok
    THEN [ok |-> FALSE, err |-> "find_dunder_file failed", warnings |-> <<>>,
          self |-> self, value |-> NoValue]
    ELSE LET found == SelectSeq(KeyOrder, LAMBDA k : k \in scan.modules)
             warnings == dunder_file_warnings(found, 1)
                         \o (IF found # <<>> THEN <<<<"__file__ was encountered">>>> ELSE <<>>)
             prepared == to_prepared_python_resources(self.resources, compiled)
         IN IF ~prepared.ok
            THEN [ok |-> FALSE, err |-> prepared.err, warnings |-> warnings,
                  self |-> self, value |-> NoValue]
            ELSE [ok |-> TRUE, err |-> NoValue, warnings |-> warnings, self |-> self,
                  value |-> [resources |-> prepared.value,
                             extension_modules |-> self.extension_module_states]]

\* what write_blobs writes to module_names, one write_all per element
RECURSIVE write_module_names(_, _)
write_module_names(keys, i) ==
    IF i > Len(keys) THEN <<>>
    ELSE <<keys[i], "\n">> \o write_module_names(keys, i + 1)

\* PreparedPythonResources::write_packed_resources_v1
write_packed_resources_v1(prepared) ==
    [ok |-> TRUE, err |-> NoValue,
     value |-> [version |-> 1, resources |-> prepared.resources]]

\* mutant: the names written are those of the statically linked extension modules
write_blobs_extension_modules(this) ==
    LET w == write_packed_resources_v1(this.resources)
    IN [ok |-> w.ok, err |-> w.err, this |-> this,
        module_names |-> write_module_names(Keys(this.extension_modules), 1),
        resources |-> w.value]

write_blobs(this) ==
    LET w == write_packed_resources_v1(this.resources)
    IN [ok |-> w.ok, err |-> w.err, this |-> this,
        module_names |-> write_module_names(Keys(this.resources.resources), 1),
        resources |-> w.value]

RECURSIVE builtin_extensions_from(_, _, _)
builtin_extensions_from(states, keys, i) ==
    IF i > Len(keys) THEN <<>>
    ELSE (IF states[keys[i]].init_fn # NoValue
          THEN <<<<keys[i], states[keys[i]].init_fn>>>>
          ELSE <<>>)
         \o builtin_extensions_from(states, keys, i + 1)

builtin_extensions(this) ==
    [ok |-> TRUE, err |-> NoValue, this |-> this,
     value |-> builtin_extensions_from(this.extension_modules, Keys(this.extension_modules), 1)]

\* FileManifest::add_file for each of self.resources.extra_files
RECURSIVE extra_install_files_from(_, _, _)
extra_install_files_from(files, i, manifest) ==
    IF i > Len(files) THEN manifest
    ELSE extra_install_files_from(files, i + 1,
            Insert(manifest, files[i].path,
                   [data |-> files[i].data, executable |-> files[i].executable]))

extra_install_files(this) ==
    [ok |-> TRUE, err |-> NoValue, this |-> this,
     value |-> extra_install_files_from(this.resources.extra_files, 1, EmptyMap)]

\* mutant: the object files of a module are put in front of those collected so far
link_extension_module_prepending(info, state) ==
    [object_files |-> state.link_object_files \o info.object_files,
     link_frameworks |-> info.link_frameworks \cup state.link_frameworks,
     link_system_libraries |-> info.link_system_libraries \cup state.link_system_libraries,
     link_libraries |-> info.link_libraries \cup state.link_static_libraries
                            \cup state.link_dynamic_libraries,
     link_libraries_external |-> info.link_libraries_external
                                    \cup state.link_external_libraries]

\* mutant: external libraries are linked like the static and dynamic ones
link_extension_module_external_merged(info, state) ==
    [object_files |-> IF state.link_object_files # <<>>
                      THEN info.object_files \o state.link_object_files
                      ELSE info.object_files,
     link_frameworks |-> info.link_frameworks \cup state.link_frameworks,
     link_system_libraries |-> info.link_system_libraries \cup state.link_system_libraries,
     link_libraries |-> info.link_libraries \cup state.link_static_libraries
                            \cup state.link_dynamic_libraries
                            \cup state.link_external_libraries,
     link_libraries_external |-> info.link_libraries_external
                                    \cup state.link_external_libraries]

\* the body of `for (name, state) in &self.extension_modules`
link_extension_module(info, state) ==
    [object_files |-> IF state.link_object_files # <<>>
                      THEN info.object_files \o state.link_object_files
                      ELSE info.object_files,
     link_frameworks |-> info.link_frameworks \cup state.link_frameworks,
     link_system_libraries |-> info.link_system_libraries \cup state.link_system_libraries,
     link_libraries |-> info.link_libraries \cup state.link_static_libraries
                            \cup state.link_dynamic_libraries,
     link_libraries_external |-> info.link_libraries_external
                                    \cup state.link_external_libraries]

\* LibpythonLinkingInfo before the loop
LibpythonLinkingInfo_new ==
    [object_files |-> <<>>, link_libraries |-> {}, link_frameworks |-> {},
     link_system_libraries |-> {}, link_libraries_external |-> {}]

RECURSIVE link_extension_modules(_, _, _, _)
link_extension_modules(states, keys, i, info) ==
    IF i > Len(keys) THEN info
    ELSE link_extension_modules(states, keys, i + 1,
            link_extension_module(info, states[keys[i]]))

resolve_libpython_linking_info(this) ==
    [ok |-> TRUE, err |-> NoValue, this |-> this,
     value |-> link_extension_modules(this.extension_modules, Keys(this.extension_modules),
                                      1, LibpythonLinkingInfo_new)]

----------------------------------------------------------------------------
(* A packaging session on PrePackagedResources: adds and filters, then     *)
(* package(), then the methods of the EmbeddedPythonResources it returned. *)
(* Operations on the collection after package() leave the packaged value   *)
(* alone: it holds a clone of extension_module_states and its own table.   *)

\* LinkEntry::to_library_dependency for the link entries of PYTHON.json
Dependency(name, static, dynamic, framework, system) ==
    [name |-> name,
     static_library |-> IF static THEN "a" ELSE NoValue,
     dynamic_library |-> IF dynamic THEN "so" ELSE NoValue,
     framework |-> framework, system |-> system]

LinkLists ==
    {<<>>,
     <<Dependency("z", FALSE, FALSE, TRUE, FALSE)>>,
     <<Dependency("z", FALSE, FALSE, FALSE, TRUE)>>,
     <<Dependency("b", TRUE, FALSE, FALSE, FALSE), Dependency("z", FALSE, TRUE, FALSE, FALSE)>>,
     <<Dependency("z", TRUE, FALSE, FALSE, FALSE)>>}

\* extension modules with object files to link and libraries to link against
LinkedExtensionModules ==
    [name : {"a"}, init_fn : {"PyInit"}, builtin_default : BOOLEAN,
     object_file_data : {<<"a1", "a2">>}, shared_library : {NoValue},
     link_libraries : LinkLists]
    \cup
    [name : {"b"}, init_fn : {"PyInit", NoValue}, builtin_default : {FALSE},
     object_file_data : {<<"b1", "a1">>}, shared_library : {NoValue},
     link_libraries : LinkLists]

\* results of find_dunder_file: the modules whose source mentions __file__, or an error
DunderFileScans ==
    [ok : {TRUE}, modules : {{}, {"os"}}] \cup {[ok |-> FALSE, modules |-> {}]}

PackagePolicies ==
    {[kind |-> "InMemoryOnly", prefix |-> NoValue],
     [kind |-> "FilesystemRelativeOnly", prefix |-> "lib"]}

InitPackage ==
    /\ pc = "collect"
    /\ policy \in PackagePolicies
    /\ link_mode = NoValue
    /\ supports_in_memory = FALSE
    /\ file_loadable = FALSE
    /\ resources = PrePackagedResources_new.resources
    /\ extension_module_states = PrePackagedResources_new.extension_module_states
    /\ nops = 0
    /\ last = Constructed
    /\ embedded = NoValue
    /\ NotExtracting

CanCollect == pc \in {"collect", "packaged"} /\ nops < MaxOps

Collect(op, module, arg, r) ==
    /\ Record(op, module, arg, r, <<>>)
    /\ nops' = nops + 1
    /\ pc' = pc

CollectBuiltinDistributionExtensionModule ==
    /\ CanCollect
    /\ \E m \in LinkedExtensionModules :
        Collect("add_builtin_distribution_extension_module", m, NoValue,
                add_builtin_distribution_extension_module(Self, m))

CollectBuiltinExtensionModule ==
    /\ CanCollect
    /\ \E m \in LinkedExtensionModules :
        Collect("add_builtin_extension_module", m, NoValue,
                add_builtin_extension_module(Self, m))

CollectPythonModuleSource ==
    /\ CanCollect
    /\ \E location \in {InMemory, RelativePath("lib")} :
        Collect("add_python_module_source", NoValue, location,
                add_python_module_source(Self, "os", location))

CollectFilterFromFiles ==
    /\ CanCollect
    /\ \E resolved \in ResolvedResourceNames :
        Collect("filter_from_files", NoValue, resolved, filter_from_files(Self, resolved))

Package ==
    /\ pc = "collect"
    /\ \E scan \in DunderFileScans, compiled \in BOOLEAN :
        LET r == package(Self, scan, compiled)
        IN /\ resources' = r.self.resources
           /\ extension_module_states' = r.self.extension_module_states
           /\ embedded' = r.value
           /\ last' = [op |-> "package", module |-> NoValue,
                       arg |-> [scan |-> scan, compiled |-> compiled],
                       ok |-> r.ok, err |-> r.err, attempts |-> <<>>, pre |-> Self,
                       warnings |-> r.warnings]
           /\ pc' = IF r.ok THEN "packaged" ELSE "failed"
    /\ UNCHANGED <<policy, link_mode, supports_in_memory, file_loadable, nops>>
    /\ UNCHANGED extractVars

\* a `&self` method of EmbeddedPythonResources; `was` is the value it was called on
Serialize(op, r) ==
    /\ pc = "packaged"
    /\ embedded' = r.this
    /\ last' = [op |-> op, module |-> NoValue, arg |-> NoValue, ok |-> r.ok, err |-> r.err,
                attempts |-> <<>>, pre |-> Self, was |-> embedded, out |-> r]
    /\ UNCHANGED <<pc, policy, link_mode, supports_in_memory, file_loadable,
                   resources, extension_module_states, nops>>
    /\ UNCHANGED extractVars

WriteBlobs ==
    /\ pc = "packaged"
    /\ Serialize("write_blobs", write_blobs(embedded))

BuiltinExtensions ==
    /\ pc = "packaged"
    /\ Serialize("builtin_extensions", builtin_extensions(embedded))

ExtraInstallFiles ==
    /\ pc = "packaged"
    /\ Serialize("extra_install_files", extra_install_files(embedded))

ResolveLibpythonLinkingInfo ==
    /\ pc = "packaged"
    /\ Serialize("resolve_libpython_linking_info", resolve_libpython_linking_info(embedded))

NextPackage ==
    \/ CollectBuiltinDistributionExtensionModule
    \/ CollectBuiltinExtensionModule
    \/ CollectPythonModuleSource
    \/ CollectFilterFromFiles
    \/ Package
    \/ WriteBlobs
    \/ BuiltinExtensions
    \/ ExtraInstallFiles
    \/ ResolveLibpythonLinkingInfo

SpecPackage == InitPackage /\ [][NextPackage]_vars

----------------------------------------------------------------------------
(* standalone_distribution.rs: StandaloneDistribution::from_tar.           *)
(* A path is the sequence of its components, "/" being the root            *)
(* component.  The tree below extract_dir is the set of its files and      *)
(* symbolic links; directories are implied by the paths.                   *)

MaxMembers == 3

Invocations == {"first", "second"}

extract_dir == <<"/", "cache">>
\* std::fs::canonicalize(extract_dir): extract_dir is already absolute and dot-free
canonicalize(path) == path
test_path == extract_dir \o <<"python", "PYTHON.json">>

\* PathBuf::extend(components): pushing a root component replaces the path
RECURSIVE path_extend(_, _, _)
path_extend(path, components, i) ==
    IF i > Len(components) THEN path
    ELSE path_extend(IF components[i] = "/" THEN <<"/">> ELSE Append(path, components[i]),
                     components, i + 1)

\* path_dedot::ParseDot::parse_dot on an absolute path
RECURSIVE parse_dot_from(_, _, _)
parse_dot_from(path, i, out) ==
    IF i > Len(path) THEN out
    ELSE parse_dot_from(path, i + 1,
            IF path[i] = "." THEN out
            ELSE IF path[i] = ".."
                 THEN (IF Len(out) > 1 THEN SubSeq(out, 1, Len(out) - 1) ELSE out)
                 ELSE Append(out, path[i]))
parse_dot(path) == parse_dot_from(path, 1, <<>>)

path_parent(path) == SubSeq(path, 1, Len(path) - 1)
starts_with(path, base) ==
    Len(path) >= Len(base) /\ SubSeq(path, 1, Len(base)) = base

\* a tar member: entry.path(), entry.link_name(), its mode; a corrupt member
\* is one the iteration over tf.entries() fails on
TarFile(path, readonly) ==
    [kind |-> "file", path |-> path, link_name |-> <<>>, readonly |-> readonly]
TarSymlink(path, link_name) ==
    [kind |-> "symlink", path |-> path, link_name |-> link_name, readonly |-> FALSE]
TarCorrupt == [kind |-> "corrupt", path |-> <<>>, link_name |-> <<>>, readonly |-> FALSE]

TarEntries ==
    {TarFile(<<"python", "PYTHON.json">>, FALSE),
     TarFile(<<"python", "os.py">>, TRUE),
     TarSymlink(<<"python", "link.py">>, <<"..", "python", "os.py">>),
     TarSymlink(<<"python", "evil">>, <<"..", "..", "etc", "passwd">>),
     TarCorrupt}

RECURSIVE Archives(_)
Archives(n) ==
    IF n = 0 THEN {<<>>}
    ELSE Archives(n - 1) \cup
         {Append(a, e) : a \in {b \in Archives(n - 1) : Len(b) = n - 1}, e \in TarEntries}

\* the tree a completed earlier extraction left: sentinel present, a file still read-only
CachedTree ==
    {[path |-> test_path, kind |-> "file", link_name |-> <<>>, readonly |-> FALSE],
     [path |-> extract_dir \o <<"python", "site.py">>, kind |-> "file",
      link_name |-> <<>>, readonly |-> TRUE]}

exists(tree, path) == \E n \in tree : n.path = path
write(tree, node) == {n \in tree : n.path # node.path} \cup {node}

\* `if !test_path.exists()`
needs_extraction_always(tree) == TRUE
needs_extraction(tree) == ~exists(tree, test_path)

\* `dest` and `source` of a symlink member
symlink_dest(absolute_path, entry) ==
    parse_dot(path_extend(absolute_path, entry.path, 1))
symlink_source(absolute_path, entry) ==
    parse_dot(path_extend(path_parent(symlink_dest(absolute_path, entry)),
                          entry.link_name, 1))

\* tar::Entry::unpack_in(&absolute_path): the member is written below the root; a
\* symbolic link is created with the link name the archive gives
unpack_in(tree, absolute_path, entry) ==
    write(tree, [path |-> path_extend(absolute_path, entry.path, 1), kind |-> entry.kind,
                 link_name |-> entry.link_name, readonly |-> entry.readonly])

\* std::fs::copy(&source, &dest): [ok, tree]; the copy carries the permissions
fs_copy(tree, source, dest) ==
    IF \E n \in tree : n.path = source /\ n.kind = "file"
    THEN LET from == CHOOSE n \in tree : n.path = source /\ n.kind = "file"
         IN [ok |-> TRUE,
             tree |-> write(tree, [path |-> dest, kind |-> "file", link_name |-> <<>>,
                                   readonly |-> from.readonly])]
    ELSE [ok |-> FALSE, tree |-> tree]

\* the walk over absolute_path that clears read-only
read_only_entries(tree, absolute_path) ==
    {n \in tree : starts_with(n.path, absolute_path) /\ n.readonly}
set_writable(tree, absolute_path) ==
    {IF n \in read_only_entries(tree, absolute_path) THEN [n EXCEPT !.readonly = FALSE] ELSE n
        : n \in tree}

\* from_directory(extract_dir), as far as it depends on the sentinel
from_directory(tree) ==
    IF exists(tree, test_path) THEN NoValue ELSE "PYTHON.json does not exist"

\* the positions of from_tar at which `_lock` is alive: the block it is declared in
lock_scope_check_only == {"check"}
lock_scope == {"check", "entries", "symlinks", "permissions"}

NewFrame ==
    [pc |-> "start", entry |-> 1, symlinks |-> <<>>, link |-> 1, err |-> NoValue,
     found |-> "unchecked", unpacked |-> 0, copied |-> 0, made_writable |-> 0,
     left |-> "not yet"]

InitExtract ==
    /\ pc = "extract"
    /\ policy = NoValue
    /\ link_mode = NoValue
    /\ supports_in_memory = FALSE
    /\ file_loadable = FALSE
    /\ resources = PrePackagedResources_new.resources
    /\ extension_module_states = PrePackagedResources_new.extension_module_states
    /\ nops = 0
    /\ last = Constructed
    /\ embedded = NoValue
    /\ target_family \in {"windows", "unix"}
    /\ archive \in Archives(MaxMembers)
    /\ fs \in {{}, CachedTree}
    /\ lock = NoValue
    /\ frames = [p \in Invocations |-> NewFrame]

\* invocation p moves to `frame`; `_lock` is dropped when its block is left
Step(p, frame, tree) ==
    /\ frames' = [frames EXCEPT ![p] =
                    IF frames[p].pc \in lock_scope /\ frame.pc \notin lock_scope
                    THEN [frame EXCEPT !.left = IF exists(tree, test_path)
                                                THEN "with sentinel" ELSE "without sentinel"]
                    ELSE frame]
    /\ fs' = tree
    /\ lock' = IF frame.pc \in lock_scope THEN p
               ELSE IF lock = p THEN NoValue ELSE lock
    /\ UNCHANGED <<target_family, archive>>
    /\ UNCHANGED builderVars

Fail(frame, err) == [frame EXCEPT !.pc = "done", !.err = err]

\* DistributionExtractLock::new(extract_dir)? blocks until the lock is free
AcquireLock ==
    /\ lock = NoValue
    /\ \E p \in Invocations :
        /\ frames[p].pc = "start"
        /\ Step(p, [frames[p] EXCEPT !.pc = "check"], fs)

AcquireLockFails ==
    /\ pc = "extract"
    /\ \E p \in Invocations :
        /\ frames[p].pc = "start"
        /\ Step(p, Fail(frames[p], "unable to obtain extraction lock"), fs)

\* `if !test_path.exists() { create_dir_all; canonicalize; .. }`
CheckSentinel ==
    /\ pc = "extract"
    /\ \E p \in Invocations :
        LET found == IF exists(fs, test_path) THEN "present" ELSE "absent"
        IN /\ frames[p].pc = "check"
           /\ IF needs_extraction(fs)
              THEN Step(p, [frames[p] EXCEPT !.pc = "entries", !.found = found], fs)
              ELSE Step(p, [frames[p] EXCEPT !.pc = "from_directory", !.found = found], fs)

\* one iteration of `for entry in tf.entries()?`, or the end of the loop
UnpackEntry ==
    /\ pc = "extract"
    /\ \E p \in Invocations :
        LET f == frames[p]
            absolute_path == canonicalize(extract_dir)
        IN /\ f.pc = "entries"
           /\ IF f.entry > Len(archive)
              THEN Step(p, [f EXCEPT !.pc = "symlinks"], fs)
              ELSE LET entry == archive[f.entry]
                       taken == [f EXCEPT !.entry = f.entry + 1]
                   IN IF entry.kind = "corrupt"
                      THEN Step(p, Fail(taken, "failed to iterate over archive"), fs)
                      ELSE IF entry.kind = "symlink" /\ target_family = "windows"
                      THEN LET dest == symlink_dest(absolute_path, entry)
                               source == symlink_source(absolute_path, entry)
                           IN IF ~starts_with(source, absolute_path)
                              THEN Step(p, Fail(taken, "malicious symlink detected in archive"),
                                        fs)
                              ELSE Step(p, [taken EXCEPT !.symlinks =
                                                Append(f.symlinks, <<source, dest>>)], fs)
                      ELSE Step(p, [taken EXCEPT !.unpacked = f.unpacked + 1],
                                unpack_in(fs, absolute_path, entry))

\* one iteration of `for (source, dest) in symlinks`, or the end of the loop
CopySymlink ==
    /\ pc = "extract"
    /\ \E p \in Invocations :
        LET f == frames[p]
        IN /\ f.pc = "symlinks"
           /\ IF f.link > Len(f.symlinks)
              THEN Step(p, [f EXCEPT !.pc = "permissions"], fs)
              ELSE LET copy == fs_copy(fs, f.symlinks[f.link][1], f.symlinks[f.link][2])
                   IN IF copy.ok
                      THEN Step(p, [f EXCEPT !.link = f.link + 1, !.copied = f.copied + 1],
                                copy.tree)
                      ELSE Step(p, Fail(f, "copying symlinked file"), fs)

\* the walk that makes unpacked files writable; the block ends and `_lock` is dropped
EnsureWritable ==
    /\ pc = "extract"
    /\ \E p \in Invocations :
        LET f == frames[p]
            absolute_path == canonicalize(extract_dir)
        IN /\ f.pc = "permissions"
           /\ Step(p, [f EXCEPT !.pc = "from_directory",
                                !.made_writable =
                                    Cardinality(read_only_entries(fs, absolute_path))],
                   set_writable(fs, absolute_path))

FromDirectory ==
    /\ pc = "extract"
    /\ \E p \in Invocations :
        /\ frames[p].pc = "from_directory"
        /\ Step(p, [frames[p] EXCEPT !.pc = "done", !.err = from_directory(fs)], fs)

NextExtract ==
    \/ AcquireLock
    \/ AcquireLockFails
    \/ CheckSentinel
    \/ UnpackEntry
    \/ CopySymlink
    \/ EnsureWritable
    \/ FromDirectory

SpecExtract == InitExtract /\ [][NextExtract]_vars

----------------------------------------------------------------------------
(* standalone_distribution.rs: parse_python_json.                          *)
(* The bytes of python/PYTHON.json are the sequence of their JSON tokens.  *)

JsonStrings == {"\"version\"", "\"target_triple\"", "\"5\"", "\"4\""}
JsonScalars == JsonStrings \cup {"5", "null"}
JsonKeys == {"\"version\"", "\"target_triple\""}

JsonValue(kind, text, members, duplicate_key) ==
    [kind |-> kind, text |-> text, members |-> members, duplicate_key |-> duplicate_key]
JsonScalar(token) ==
    JsonValue(IF token \in JsonStrings THEN "string"
              ELSE IF token = "null" THEN "null" ELSE "number",
              token, EmptyMap, FALSE)

\* the members of an object from token i on; a repeated key replaces the value
RECURSIVE parse_members(_, _, _, _)
parse_members(tokens, i, members, duplicate_key) ==
    IF i + 3 > Len(tokens)
       \/ tokens[i] \notin JsonStrings \/ tokens[i + 1] # ":" \/ tokens[i + 2] \notin JsonScalars
    THEN [ok |-> FALSE, value |-> NoValue]
    ELSE LET found == Insert(members, tokens[i], JsonScalar(tokens[i + 2]))
             repeated == duplicate_key \/ tokens[i] \in DOMAIN members
         IN IF tokens[i + 3] = "}" /\ i + 3 = Len(tokens)
            THEN [ok |-> TRUE, value |-> JsonValue("object", "", found, repeated)]
            ELSE IF tokens[i + 3] = ","
            THEN parse_members(tokens, i + 4, found, repeated)
            ELSE [ok |-> FALSE, value |-> NoValue]

\* serde_json::from_slice::<serde_json::Value>(&buf)
serde_json_from_slice(tokens) ==
    IF tokens = <<>> THEN [ok |-> FALSE, value |-> NoValue]
    ELSE IF Len(tokens) = 1 /\ tokens[1] \in JsonScalars
    THEN [ok |-> TRUE, value |-> JsonScalar(tokens[1])]
    ELSE IF tokens = <<"[", "]">>
    THEN [ok |-> TRUE, value |-> JsonValue("array", "", EmptyMap, FALSE)]
    ELSE IF tokens = <<"{", "}">>
    THEN [ok |-> TRUE, value |-> JsonValue("object", "", EmptyMap, FALSE)]
    ELSE IF tokens[1] = "{" THEN parse_members(tokens, 2, EmptyMap, FALSE)
    ELSE [ok |-> FALSE, value |-> NoValue]

\* serde_json::from_slice::<PythonJsonMain>(&buf): the required string fields, each once
deserialize_PythonJsonMain(value) ==
    IF /\ value.kind = "object"
       /\ ~value.duplicate_key
       /\ JsonKeys \subseteq DOMAIN value.members
       /\ \A key \in JsonKeys : value.members[key].kind = "string"
    THEN [ok |-> TRUE,
          value |-> [version |-> value.members["\"version\""].text,
                     target_triple |-> value.members["\"target_triple\""].text]]
    ELSE [ok |-> FALSE, value |-> NoValue]

ManifestResult(err, value) == [ok |-> err = NoValue, err |-> err, value |-> value]

\* mutant: the version is not compared with "5"
parse_python_json_any_version(tree, path) ==
    IF ~exists(tree, path) THEN ManifestResult("PYTHON.json does not exist", NoValue)
    ELSE LET buf == (CHOOSE n \in tree : n.path = path).content
             parsed == serde_json_from_slice(buf)
         IN IF ~parsed.ok THEN ManifestResult("invalid JSON", NoValue)
            ELSE IF parsed.value.kind # "object"
            THEN ManifestResult("PYTHON.json does not parse to an object", NoValue)
            ELSE IF "\"version\"" \notin DOMAIN parsed.value.members
            THEN ManifestResult("version key not present in PYTHON.json", NoValue)
            ELSE IF parsed.value.members["\"version\""].kind # "string"
            THEN ManifestResult("unable to parse version as a string", NoValue)
            ELSE LET v == deserialize_PythonJsonMain(parsed.value)
                 IN IF v.ok THEN ManifestResult(NoValue, v.value)
                    ELSE ManifestResult("invalid PythonJsonMain", NoValue)

parse_python_json(tree, path) ==
    IF ~exists(tree, path) THEN ManifestResult("PYTHON.json does not exist", NoValue)
    ELSE LET buf == (CHOOSE n \in tree : n.path = path).content
             parsed == serde_json_from_slice(buf)
         IN IF ~parsed.ok THEN ManifestResult("invalid JSON", NoValue)
            ELSE IF parsed.value.kind # "object"
            THEN ManifestResult("PYTHON.json does not parse to an object", NoValue)
            ELSE IF "\"version\"" \notin DOMAIN parsed.value.members
            THEN ManifestResult("version key not present in PYTHON.json", NoValue)
            ELSE IF parsed.value.members["\"version\""].kind # "string"
            THEN ManifestResult("unable to parse version as a string", NoValue)
            ELSE IF parsed.value.members["\"version\""].text # "\"5\""
            THEN ManifestResult("expected version 5 standalone distribution", NoValue)
            ELSE LET v == deserialize_PythonJsonMain(parsed.value)
                 IN IF v.ok THEN ManifestResult(NoValue, v.value)
                    ELSE ManifestResult("invalid PythonJsonMain", NoValue)

\* the manifests a distribution directory may hold, each with the document it was
\* written from: `pairs` are the key and value of each member, in order, and
\* `written` the number of leading tokens that reached the file
JsonMembers == {<<key, value>> : key \in JsonKeys, value \in JsonScalars}
ObjectTokens(pairs) ==
    IF Len(pairs) = 0 THEN <<"{", "}">>
    ELSE IF Len(pairs) = 1 THEN <<"{", pairs[1][1], ":", pairs[1][2], "}">>
    ELSE <<"{", pairs[1][1], ":", pairs[1][2], ",", pairs[2][1], ":", pairs[2][2], "}">>
Documents ==
    [shape : {"object"},
     pairs : {<<>>} \cup {<<m>> : m \in JsonMembers}
             \cup {<<m1, m2>> : m1 \in JsonMembers, m2 \in JsonMembers}]
    \cup [shape : {"scalar"}, pairs : {<<<<"", v>>>> : v \in JsonScalars}]
    \cup {[shape |-> "array", pairs |-> <<>>]}
DocumentTokens(doc) ==
    CASE doc.shape = "object" -> ObjectTokens(doc.pairs)
      [] doc.shape = "scalar" -> <<doc.pairs[1][2]>>
      [] OTHER -> <<"[", "]">>
Manifests ==
    UNION {{[document |-> doc, written |-> n] :
                n \in {k \in {0, 2, 4} : k < Len(DocumentTokens(doc))}
                      \cup {Len(DocumentTokens(doc))}} : doc \in Documents}
ManifestTokens(m) == SubSeq(DocumentTokens(m.document), 1, m.written)

InitManifest ==
    /\ pc = "manifest"
    /\ policy = NoValue
    /\ link_mode = NoValue
    /\ supports_in_memory = FALSE
    /\ file_loadable = FALSE
    /\ resources = PrePackagedResources_new.resources
    /\ extension_module_states = PrePackagedResources_new.extension_module_states
    /\ nops = 0
    /\ embedded = NoValue
    /\ target_family = "unix"
    /\ archive = <<>>
    /\ lock = NoValue
    /\ frames = <<>>
    /\ \/ /\ fs = {}
          /\ last = [Constructed EXCEPT !.op = "no manifest"]
       \/ \E m \in Manifests :
            /\ fs = {[path |-> test_path, kind |-> "file", content |-> ManifestTokens(m)]}
            /\ last = [Constructed EXCEPT !.op = "manifest", !.arg = m]

\* `let pi = parse_python_json_from_distribution(dist_dir)?` of from_directory
ParsePythonJson ==
    /\ pc = "manifest"
    /\ LET r == parse_python_json(fs, test_path)
       IN /\ pc' = IF r.ok THEN "parsed" ELSE "failed"
          /\ last' = [op |-> "parse_python_json", module |-> NoValue, arg |-> last.arg,
                      ok |-> r.ok, err |-> r.err, attempts |-> <<>>, pre |-> last.pre,
                      value |-> r.value, had |-> last.op]
    /\ UNCHANGED <<policy, link_mode, supports_in_memory, file_loadable, resources,
                   extension_module_states, nops, embedded>>
    /\ UNCHANGED extractVars

NextManifest ==
    \/ ParsePythonJson

SpecManifest == InitManifest /\ [][NextManifest]_vars

----------------------------------------------------------------------------
(* Properties *)

Module == last.module
ModuleName == last.module.name
Pre == last.pre

IsStaticallyLinked(name) == name \in builtin_extension_module_names(Self)
WasStaticallyLinked(name) == name \in builtin_extension_module_names(Pre)

\* the record of `name` in the resource mapping is what it was before the operation
ResourceUntouched(name) ==
    IF name \in iter_resources(Pre)
    THEN name \in iter_resources(Self) /\ resources[name] = Pre.resources[name]
    ELSE name \notin iter_resources(Self)

\* the build state of `name` is what it was before the operation
BuildStateUntouched(name) ==
    IF WasStaticallyLinked(name)
    THEN IsStaticallyLinked(name)
         /\ extension_module_states[name] = Pre.extension_module_states[name]
    ELSE ~IsStaticallyLinked(name)

HasInMemoryPlacement(name) ==
    /\ name \in iter_resources(Self)
    /\ resources[name].in_memory_extension_module_shared_library

HasRelativePathPlacement(name) ==
    /\ name \in iter_resources(Self)
    /\ resources[name].relative_path_extension_module_shared_library # NoValue

AddedDistributionExtensionModule == last.op = "add_distribution_extension_module"
AddedDistributionResources == last.op = "add_distribution_resources"

\* C1: whatever the resources policy and the link mode, add_distribution_extension_module
\* on a builtin_default module succeeds, leaves the module in extension_module_states
\* and adds no record for its name to the resource mapping.
C1_BuiltinDefaultIsStaticallyLinked ==
    (AddedDistributionExtensionModule /\ Module.builtin_default) =>
        /\ last.ok
        /\ IsStaticallyLinked(ModuleName)
        /\ extension_module_states[ModuleName].init_fn = Module.init_fn
        /\ ResourceUntouched(ModuleName)

C1_Witness ==
    /\ AddedDistributionExtensionModule
    /\ Module.builtin_default
    /\ Module.shared_library # NoValue
    /\ link_mode = "Dynamic"
    /\ policy.kind = "FilesystemRelativeOnly"
    /\ file_loadable
    /\ IsStaticallyLinked(ModuleName)
    /\ ~WasStaticallyLinked(ModuleName)

\* C2: under the Static link mode add_distribution_extension_module puts every
\* distribution extension module in extension_module_states, for each policy, and
\* after add_distribution_resources every selected module is a builtin extension module.
C2_StaticLinksEveryDistributionModule ==
    /\ (link_mode = "Static" /\ AddedDistributionExtensionModule) =>
            (last.ok /\ IsStaticallyLinked(ModuleName))
    /\ (link_mode = "Static" /\ AddedDistributionResources) =>
            /\ last.ok
            /\ \A i \in DOMAIN last.arg : IsStaticallyLinked(last.arg[i].name)

C2_Witness ==
    /\ link_mode = "Static"
    /\ AddedDistributionResources
    /\ policy.kind = "FilesystemRelativeOnly"
    /\ file_loadable
    /\ Len(last.arg) = 2
    /\ ~last.arg[1].builtin_default /\ last.arg[1].shared_library # NoValue
    /\ ~last.arg[2].builtin_default /\ last.arg[2].shared_library = NoValue
    /\ builtin_extension_module_names(Self) = {"a", "b"}

\* C3: under the Dynamic link mode, once add_distribution_resources has added the
\* distribution's extension modules, a module's name is a builtin extension module
\* name exactly when the module is builtin_default.
C3_DynamicBuiltinIffBuiltinDefault ==
    (link_mode = "Dynamic" /\ AddedDistributionResources /\ last.ok) =>
        \A i \in DOMAIN last.arg :
            IsStaticallyLinked(last.arg[i].name) <=> last.arg[i].builtin_default

C3_Witness ==
    /\ link_mode = "Dynamic"
    /\ AddedDistributionResources
    /\ last.ok
    /\ Len(last.arg) = 2
    /\ last.arg[1].builtin_default
    /\ ~last.arg[2].builtin_default
    /\ builtin_extension_module_names(Self) = {"a"}
    /\ "b" \in iter_resources(Self)

\* C4: under Dynamic, InMemoryOnly and the in-memory loading capability,
\* add_distribution_extension_module on a module that is not builtin_default and has
\* shared-library bytes records it as an in-memory extension module, with no
\* relative-path location and no entry added to extension_module_states.
C4_InMemoryOnlyPlacesInMemory ==
    ( /\ AddedDistributionExtensionModule
      /\ link_mode = "Dynamic"
      /\ policy.kind = "InMemoryOnly"
      /\ supports_in_memory
      /\ ~Module.builtin_default
      /\ Module.shared_library # NoValue ) =>
        /\ last.ok
        /\ HasInMemoryPlacement(ModuleName)
        /\ ~HasRelativePathPlacement(ModuleName)
        /\ BuildStateUntouched(ModuleName)

C4_Witness ==
    /\ AddedDistributionExtensionModule
    /\ link_mode = "Dynamic"
    /\ policy.kind = "InMemoryOnly"
    /\ supports_in_memory
    /\ ~Module.builtin_default
    /\ Module.shared_library # NoValue
    /\ Module.link_libraries # <<>>
    /\ HasInMemoryPlacement(ModuleName)
    /\ ~IsStaticallyLinked(ModuleName)
    /\ ModuleName \notin iter_resources(Pre)

\* the fallback of add_distribution_extension_module was entered: Dynamic link mode,
\* PreferInMemoryFallbackFilesystemRelative, and the in-memory attempt failed
InMemoryAttemptFailed ==
    /\ AddedDistributionExtensionModule
    /\ link_mode = "Dynamic"
    /\ policy.kind = "PreferInMemoryFallbackFilesystemRelative"
    /\ ~Module.builtin_default
    /\ last.attempts # <<>>
    /\ last.attempts[1].placement = "in-memory"
    /\ ~last.attempts[1].ok

RetriedAtRelativePath ==
    /\ Len(last.attempts) = 2
    /\ last.attempts[2].placement = "relative-path"

PlacementCount(name) ==
    (IF HasInMemoryPlacement(name) THEN 1 ELSE 0)
    + (IF HasRelativePathPlacement(name) THEN 1 ELSE 0)

\* C5 as stated: after a failed in-memory attempt the module is retried at
\* RelativePath(prefix) and then has exactly one placement.
C5_ExactlyOnePlacement ==
    InMemoryAttemptFailed =>
        (RetriedAtRelativePath /\ PlacementCount(ModuleName) = 1)

\* C5, amended: after a failed in-memory attempt the module is retried at
\* RelativePath(prefix); when the retry succeeds the module has exactly one placement,
\* at RelativePath(prefix) and not in memory; when the retry fails as well the call
\* adds no placement; in neither case is the module registered for static linking.
C5_FallbackPlacesAtMostOnce ==
    InMemoryAttemptFailed =>
        /\ RetriedAtRelativePath
        /\ last.ok =>
            /\ PlacementCount(ModuleName) = 1
            /\ resources[ModuleName].relative_path_extension_module_shared_library = policy.prefix
            /\ ~HasInMemoryPlacement(ModuleName)
        /\ ~last.ok => ResourceUntouched(ModuleName)
        /\ BuildStateUntouched(ModuleName)

C5_Witness ==
    /\ InMemoryAttemptFailed
    /\ RetriedAtRelativePath
    /\ last.ok
    /\ policy.prefix = "ext"
    /\ Module.link_libraries # <<>>
    /\ ModuleName \notin iter_resources(Pre)
    /\ HasRelativePathPlacement(ModuleName)
    /\ ~HasInMemoryPlacement(ModuleName)

\* C6 as stated: in the fallback the operation succeeds when the retry succeeds, and
\* returns the error of the first (in-memory) attempt when both attempts fail.
C6_FirstErrorReturned ==
    InMemoryAttemptFailed =>
        /\ last.attempts[2].ok => last.ok
        /\ ~last.attempts[2].ok => (~last.ok /\ last.err = last.attempts[1].err)

\* C6, amended: in the fallback the operation returns the result of the retry: success
\* when the retry succeeds, the error of the second (filesystem-relative) attempt when
\* both fail; the error of the first attempt is discarded in both cases.
C6_RetryResultReturned ==
    InMemoryAttemptFailed =>
        /\ RetriedAtRelativePath
        /\ last.ok = last.attempts[2].ok
        /\ last.err = last.attempts[2].err
        /\ last.err # last.attempts[1].err

C6_Witness ==
    /\ InMemoryAttemptFailed
    /\ RetriedAtRelativePath
    /\ ~last.attempts[2].ok
    /\ ~last.ok
    /\ Module.shared_library # NoValue
    /\ last.err = "loading extension modules from files not supported"
    /\ last.attempts[1].err = "loading extension modules from memory not supported"

AddedDynamicExtensionModule == last.op = "add_dynamic_extension_module"

\* C7: add_dynamic_extension_module under InMemoryOnly without the capability of loading
\* a shared library from memory returns an error and places the module nowhere, also
\* when the distribution can load extension modules from files.
C7_InMemoryOnlyDoesNotFallBack ==
    (AddedDynamicExtensionModule /\ policy.kind = "InMemoryOnly" /\ ~supports_in_memory) =>
        /\ ~last.ok
        /\ Self = Pre

C7_Witness ==
    /\ AddedDynamicExtensionModule
    /\ policy.kind = "InMemoryOnly"
    /\ ~supports_in_memory
    /\ file_loadable
    /\ Module.shared_library # NoValue
    /\ Module.object_file_data # <<>>
    /\ ~last.ok
    /\ last.err = "in-memory-only policy but in-memory importing not supported"

\* C8 as stated: no name is at once a key of extension_module_states and a key of the
\* resource mapping iter_resources returns.
C8_StaticallyLinkedNamesAreNotResources ==
    builtin_extension_module_names(Self) \cap iter_resources(Self) = {}

Filtered ==
    /\ last.op \in {"filter_from_files", "filter_resources_from_files"}
    /\ last.arg.ok

\* C9: filter_from_files with the resolved allow-set S keeps exactly the records and the
\* extension module build states whose name is in S, each unchanged, and filtering
\* once more with the same S changes nothing.
C9_FilterKeepsAllowedNames ==
    Filtered =>
        /\ last.ok
        /\ iter_resources(Self) = iter_resources(Pre) \cap last.arg.names
        /\ \A n \in iter_resources(Self) : resources[n] = Pre.resources[n]
        /\ builtin_extension_module_names(Self) =
                builtin_extension_module_names(Pre) \cap last.arg.names
        /\ \A n \in builtin_extension_module_names(Self) :
                extension_module_states[n] = Pre.extension_module_states[n]
        /\ filter_from_files(Self, last.arg) = Ok(Self)

C9_Witness ==
    /\ Filtered
    /\ last.arg.names = {"a"}
    /\ iter_resources(Pre) = {"a", "os"}
    /\ iter_resources(Self) = {"a"}
    /\ builtin_extension_module_names(Pre) = {"a", "b"}
    /\ builtin_extension_module_names(Self) = {"a"}

\* C10: add_in_memory_distribution_extension_module on a module without shared_library
\* returns an error and leaves the resource mapping and extension_module_states as
\* they were.
C10_InMemoryWithoutSharedLibraryFails ==
    ( /\ last.op = "add_in_memory_distribution_extension_module"
      /\ Module.shared_library = NoValue ) =>
        /\ ~last.ok
        /\ last.err = "in-memory: lacks shared library data"
        /\ Self = Pre

C10_Witness ==
    /\ last.op = "add_in_memory_distribution_extension_module"
    /\ Module.shared_library = NoValue
    /\ Module.link_libraries # <<>>
    /\ policy.kind # "FilesystemRelativeOnly"
    /\ ~last.ok
    /\ iter_resources(Self) # {}
    /\ builtin_extension_module_names(Self) # {}

LacksSharedLibrary == Module.shared_library = NoValue
LacksObjectFiles == Module.object_file_data = <<>>

DynamicForms ==
    {"add_in_memory_distribution_extension_module",
     "add_relative_path_distribution_extension_module",
     "add_dynamic_extension_module",
     "add_in_memory_dynamic_extension_module",
     "add_relative_path_dynamic_extension_module"}

BuiltinForms ==
    {"add_builtin_distribution_extension_module", "add_static_extension_module"}

ResolvedLinkingInfo == last.op = "resolve_libpython_linking_info"
LinkingInfo == last.out.value
LinkedStates == last.was.extension_modules

\* the object files of module `name`, none when it is not statically linked
ObjectFilesOf(name) ==
    IF name \in DOMAIN LinkedStates THEN LinkedStates[name].link_object_files ELSE <<>>

\* C12: resolve_libpython_linking_info returns sets that hold every module's names of
\* their category, and an object_files list that is the modules' link_object_files lists
\* one after the other in ascending module name, so as long as all of them together.
C12_LinkingInfoAggregatesModules ==
    ResolvedLinkingInfo =>
        /\ last.ok
        /\ LinkingInfo.object_files =
                ObjectFilesOf("a") \o ObjectFilesOf("b") \o ObjectFilesOf("os") \o ObjectFilesOf("z")
        /\ Len(LinkingInfo.object_files) =
                Len(ObjectFilesOf("a")) + Len(ObjectFilesOf("b"))
                + Len(ObjectFilesOf("os")) + Len(ObjectFilesOf("z"))
        /\ \A n \in DOMAIN LinkedStates :
            /\ LinkedStates[n].link_frameworks \subseteq LinkingInfo.link_frameworks
            /\ LinkedStates[n].link_system_libraries \subseteq LinkingInfo.link_system_libraries
            /\ LinkedStates[n].link_static_libraries \subseteq LinkingInfo.link_libraries
            /\ LinkedStates[n].link_dynamic_libraries \subseteq LinkingInfo.link_libraries
            /\ LinkedStates[n].link_external_libraries \subseteq LinkingInfo.link_libraries_external

C12_Witness ==
    /\ ResolvedLinkingInfo
    /\ DOMAIN LinkedStates = {"a", "b"}
    /\ LinkedStates["a"].link_object_files = <<"a1", "a2">>
    /\ LinkedStates["b"].link_object_files = <<"b1", "a1">>
    /\ LinkedStates["a"].link_static_libraries = {"b"}
    /\ LinkedStates["b"].link_frameworks = {"z"}
    /\ LinkingInfo.object_files = <<"a1", "a2", "b1", "a1">>
    /\ LinkingInfo.link_libraries = {"b", "z"}
    /\ LinkingInfo.link_frameworks = {"z"}

\* C13: in the result of resolve_libpython_linking_info link_libraries is exactly the
\* static and dynamic library names of all modules, link_frameworks,
\* link_system_libraries and link_libraries_external are exactly their framework, system
\* and external names, and a name that is only external is not in link_libraries.
C13_LinkCategoriesKeptApart ==
    ResolvedLinkingInfo =>
        /\ LinkingInfo.link_libraries =
                UNION {LinkedStates[n].link_static_libraries
                        \cup LinkedStates[n].link_dynamic_libraries : n \in DOMAIN LinkedStates}
        /\ LinkingInfo.link_frameworks =
                UNION {LinkedStates[n].link_frameworks : n \in DOMAIN LinkedStates}
        /\ LinkingInfo.link_system_libraries =
                UNION {LinkedStates[n].link_system_libraries : n \in DOMAIN LinkedStates}
        /\ LinkingInfo.link_libraries_external =
                UNION {LinkedStates[n].link_external_libraries : n \in DOMAIN LinkedStates}
        /\ \A lib \in LinkingInfo.link_libraries_external :
                (\A n \in DOMAIN LinkedStates :
                    lib \notin LinkedStates[n].link_static_libraries
                            \cup LinkedStates[n].link_dynamic_libraries)
                => lib \notin LinkingInfo.link_libraries

C13_Witness ==
    /\ ResolvedLinkingInfo
    /\ DOMAIN LinkedStates = {"a", "b"}
    /\ LinkingInfo.link_libraries_external = {"b", "z"}
    /\ LinkingInfo.link_libraries = {"z"}
    /\ LinkingInfo.link_frameworks = {}
    /\ LinkingInfo.link_system_libraries = {}

Packaged == last.op = "package"

\* C17 as stated: the scan for __file__ never makes package() fail: when the prepared
\* resources can be resolved, package() succeeds whatever the scan found and however
\* it ended.
C17_ScanNeverFailsPackage ==
    (Packaged /\ last.arg.compiled) => last.ok

WroteBlobs == last.op = "write_blobs"
ResourceTable == last.was.resources.resources
ModuleNamesWritten == last.out.module_names

\* ascending order of resource names
NameBefore ==
    {<<"a", "b">>, <<"a", "os">>, <<"a", "z">>, <<"b", "os">>, <<"b", "z">>, <<"os", "z">>}

\* C18: write_blobs writes to module_names one line per resource of the prepared
\* table, the name then a newline, in ascending name order (the table's iteration
\* order) with no name left out or repeated, then the packed table in format version 1.
C18_ModuleNamesOnePerResource ==
    WroteBlobs =>
        LET n == Cardinality(DOMAIN ResourceTable)
        IN /\ last.ok
           /\ Len(ModuleNamesWritten) = 2 * n
           /\ \A i \in 1..n :
                /\ ModuleNamesWritten[2 * i - 1] \in DOMAIN ResourceTable
                /\ ModuleNamesWritten[2 * i] = "\n"
           /\ \A name \in DOMAIN ResourceTable :
                Cardinality({i \in 1..n : ModuleNamesWritten[2 * i - 1] = name}) = 1
           /\ \A i, j \in 1..n :
                i < j => <<ModuleNamesWritten[2 * i - 1], ModuleNamesWritten[2 * j - 1]>>
                            \in NameBefore
           /\ last.out.resources.version = 1
           /\ last.out.resources.resources = ResourceTable

C18_Witness ==
    /\ WroteBlobs
    /\ DOMAIN ResourceTable = {"b", "os"}
    /\ DOMAIN last.was.extension_modules = {"b"}
    /\ ModuleNamesWritten = <<"b", "\n", "os", "\n">>

Serializers ==
    {"write_blobs", "builtin_extensions", "extra_install_files",
     "resolve_libpython_linking_info"}

\* C19: write_blobs, extra_install_files, builtin_extensions and
\* resolve_libpython_linking_info change neither the EmbeddedPythonResources nor the
\* collection, package() does not change the collection, and no operation on the
\* collection after package() changes the EmbeddedPythonResources it returned.
C19_SerializationIsAProjection ==
    [][ /\ last'.op \in Serializers =>
            (embedded' = embedded /\ Self' = Self)
        /\ (last'.op = "package" /\ pc = "collect") => Self' = Self
        /\ pc = "packaged" => embedded' = embedded ]_vars

C19_Witness ==
    /\ pc = "packaged"
    /\ last.op = "add_builtin_extension_module"
    /\ last.ok
    /\ DOMAIN embedded.extension_modules # {}
    /\ ModuleName \notin DOMAIN embedded.extension_modules
    /\ ModuleName \notin DOMAIN embedded.resources.resources
    /\ IsStaticallyLinked(ModuleName)


----------------------------------------------------------------------------
(* Archive extraction *)

Inside(p) == frames[p].pc \in {"check", "entries", "symlinks", "permissions"}
BothUnpacked == \A p \in Invocations : frames[p].unpacked > 0

\* C14 as stated: two invocations of from_tar on the same directory are never
\* both between the sentinel check and the end of extraction, and at most
\* one of the two ever unpacks archive members.
C14_AtMostOneInvocationUnpacks ==
    /\ \A p, q \in Invocations : p # q => ~(Inside(p) /\ Inside(q))
    /\ Cardinality({p \in Invocations : frames[p].unpacked > 0}) <= 1

\* C14 as amended: two invocations of from_tar on the same directory are never
\* both between the sentinel check and the end of extraction, whoever is
\* there holds the lock, and both unpack archive members only one after the
\* other and only when one of them left that section with no
\* python/PYTHON.json in place.
C14_ExtractionUnderExclusiveLock ==
    /\ \A p, q \in Invocations : p # q => ~(Inside(p) /\ Inside(q))
    /\ \A p \in Invocations : Inside(p) => lock = p
    /\ BothUnpacked => \E p \in Invocations : frames[p].left = "without sentinel"

C14_Witness ==
    \E p, q \in Invocations :
        /\ frames[p].pc = "entries" /\ frames[p].unpacked > 0
        /\ frames[q].pc = "start"
        /\ lock = p

\* C15: an invocation of from_tar that finds python/PYTHON.json in the target
\* directory unpacks no member, records and copies no symlink, changes no
\* permission, and none of its steps changes the directory tree, so that a
\* second extraction leaves the tree of the first.
C15_SentinelSkipsExtraction ==
    /\ [](\A p \in DOMAIN frames :
            frames[p].found = "present" =>
                /\ frames[p].unpacked = 0
                /\ frames[p].copied = 0
                /\ frames[p].made_writable = 0
                /\ frames[p].symlinks = <<>>
                /\ frames[p].pc \in {"from_directory", "done"})
    /\ [][\A p \in DOMAIN frames :
            (frames'[p] # frames[p] /\
             (frames[p].found = "present" \/
              (frames[p].pc = "check" /\ exists(fs, test_path))))
                => fs' = fs]_vars

C15_Witness ==
    \E p, q \in Invocations :
        /\ frames[p].unpacked > 0 /\ frames[p].pc = "done" /\ frames[p].err = NoValue
        /\ frames[q].found = "present" /\ frames[q].pc = "done" /\ frames[q].err = NoValue
        /\ \E n \in fs : n.path # test_path

IsEscapingSymlink(entry) ==
    /\ entry.kind = "symlink"
    /\ ~starts_with(symlink_source(canonicalize(extract_dir), entry),
                    canonicalize(extract_dir))

\* C16: once an extraction has come to a symbolic link member whose resolved
\* destination is not below the extraction root, it has failed with
\* "malicious symlink detected in archive" and the tree holds no symbolic
\* link and no copy at that member's path.
C16_EscapingSymlinkRejected ==
    \A p \in DOMAIN frames : \A i \in 1..Len(archive) :
        (i < frames[p].entry /\ IsEscapingSymlink(archive[i])) =>
            /\ frames[p].pc = "done"
            /\ frames[p].err = "malicious symlink detected in archive"
            /\ ~exists(fs, symlink_dest(canonicalize(extract_dir), archive[i]))


----------------------------------------------------------------------------
(* Link mode *)

Built == last.op = "as_python_executable_builder"
RequestedLinkMode == last.arg.libpython_link_mode
LinkModeRefused ==
    /\ ~last.ok
    /\ pc = "failed"
    /\ link_mode = NoValue
    /\ last.err \in {"static libpython not supported", "dynamic libpython not supported",
                     "no link modes supported"}

\* C20: as_python_executable_builder fails when Static is requested of a
\* distribution that does not support static linking and when Dynamic is
\* requested of one that does not support dynamic linking, which a linux-musl
\* distribution never does; a builder it returns for a Static or Dynamic
\* request has the requested mode; Default gives Static when supported,
\* otherwise Dynamic when supported, otherwise an error.
C20_UnsupportedLinkModeIsAnError ==
    Built =>
        LET dist == last.arg.dist
            static == supports_static_libpython(dist)
            dynamic == supports_dynamic_libpython(dist)
        IN /\ ContainsLinuxMusl(dist.target_triple) => ~dynamic
           /\ (RequestedLinkMode = "Static" /\ ~static) => LinkModeRefused
           /\ (RequestedLinkMode = "Dynamic" /\ ~dynamic) => LinkModeRefused
           /\ (RequestedLinkMode = "Static" /\ static) => link_mode = "Static"
           /\ (RequestedLinkMode = "Dynamic" /\ dynamic) => link_mode = "Dynamic"
           /\ RequestedLinkMode = "Default" =>
                IF static THEN link_mode = "Static"
                ELSE IF dynamic THEN link_mode = "Dynamic"
                ELSE LinkModeRefused

C20_Witness ==
    /\ Built
    /\ RequestedLinkMode = "Dynamic"
    /\ ContainsLinuxMusl(last.arg.dist.target_triple)
    /\ last.err = "dynamic libpython not supported"
    /\ pc = "failed"

----------------------------------------------------------------------------
(* Placement named by the operation *)

Called == pc = "called"
InMemoryOperations ==
    {"add_in_memory_distribution_extension_module", "add_in_memory_dynamic_extension_module"}
RelativePathOperations ==
    {"add_relative_path_distribution_extension_module",
     "add_relative_path_dynamic_extension_module"}
BuiltinOperations ==
    {"add_builtin_distribution_extension_module", "add_static_extension_module"}
PolicyOperations == {"add_distribution_extension_module", "add_dynamic_extension_module"}

\* C21: an in-memory add operation of the builder leaves the module in memory or
\* fails, and never registers it for static linking or beside the binary; a
\* relative-path operation places it only at its prefix; a builtin operation
\* only links it statically; a policy-driven operation places nothing on the
\* filesystem under InMemoryOnly and nothing in memory under
\* FilesystemRelativeOnly.
C21_PlacementIsTheOneNamed ==
    Called =>
        /\ last.op \in InMemoryOperations =>
            /\ BuildStateUntouched(ModuleName)
            /\ ~HasRelativePathPlacement(ModuleName)
            /\ last.ok => HasInMemoryPlacement(ModuleName)
        /\ last.op \in RelativePathOperations =>
            /\ BuildStateUntouched(ModuleName)
            /\ ~HasInMemoryPlacement(ModuleName)
            /\ last.ok =>
                resources[ModuleName].relative_path_extension_module_shared_library = last.arg
        /\ last.op \in BuiltinOperations =>
            /\ PlacementCount(ModuleName) = 0
            /\ last.ok => IsStaticallyLinked(ModuleName)
        /\ (last.op \in PolicyOperations /\ policy.kind = "InMemoryOnly") =>
            ~HasRelativePathPlacement(ModuleName)
        /\ (last.op \in PolicyOperations /\ policy.kind = "FilesystemRelativeOnly") =>
            ~HasInMemoryPlacement(ModuleName)

----------------------------------------------------------------------------
(* Manifest *)

ParsedManifest == last.op = "parse_python_json"
ManifestRefused == ~last.ok /\ pc = "failed" /\ last.value = NoValue
IsCompleteObject(m) ==
    m.document.shape = "object" /\ m.written = Len(DocumentTokens(m.document))
VersionMembers(m) == {i \in DOMAIN m.document.pairs : m.document.pairs[i][1] = "\"version\""}
\* the value a JSON object gives a key is that of its last member with the key
VersionOf(m) ==
    m.document.pairs[CHOOSE i \in VersionMembers(m) : \A j \in VersionMembers(m) : j <= i][2]

\* C22: parse_python_json fails, and returns no manifest, when python/PYTHON.json
\* is missing, is not a complete JSON object, has no version member, or has a
\* version that is not the string "5"; a manifest it returns has version "5".
C22_OnlyVersion5ManifestsLoad ==
    ParsedManifest =>
        /\ last.had = "no manifest" => ManifestRefused
        /\ last.had = "manifest" =>
            /\ ~IsCompleteObject(last.arg) => ManifestRefused
            /\ (IsCompleteObject(last.arg) /\ VersionMembers(last.arg) = {}) => ManifestRefused
            /\ (IsCompleteObject(last.arg) /\ VersionMembers(last.arg) # {}
                /\ VersionOf(last.arg) # "\"5\"") => ManifestRefused
        /\ last.ok =>
            /\ last.had = "manifest"
            /\ IsCompleteObject(last.arg)
            /\ VersionMembers(last.arg) # {}
            /\ VersionOf(last.arg) = "\"5\""
            /\ last.value.version = "\"5\""

C22_Witness ==
    /\ ParsedManifest
    /\ last.had = "manifest"
    /\ IsCompleteObject(last.arg)
    /\ last.arg.document.pairs = <<<<"\"target_triple\"", "\"4\"">>, <<"\"version\"", "\"4\"">>>>
    /\ last.err = "expected version 5 standalone distribution"

----------------------------------------------------------------------------
(* FilesystemRelativeOnly *)

AddedUnderFilesystemRelativeOnly ==
    /\ AddedDistributionExtensionModule
    /\ link_mode = "Dynamic"
    /\ policy.kind = "FilesystemRelativeOnly"
    /\ ~Module.builtin_default

PlacedAtPolicyPrefixOnly ==
    /\ last.ok
    /\ resources[ModuleName].relative_path_extension_module_shared_library = policy.prefix
    /\ ~HasInMemoryPlacement(ModuleName)
    /\ BuildStateUntouched(ModuleName)

\* C23 as stated: under Dynamic and FilesystemRelativeOnly(prefix),
\* add_distribution_extension_module on a module that is not builtin_default
\* places it at RelativePath(prefix) only, when the distribution loads
\* extension modules from files, and fails adding nothing when it does not.
C23_FilesystemRelativeOnlyPlacesAtPrefix ==
    AddedUnderFilesystemRelativeOnly =>
        /\ file_loadable => PlacedAtPolicyPrefixOnly
        /\ ~file_loadable => (~last.ok /\ Self = Pre)

\* C23 as amended: the same for a module that has shared-library data; a module
\* without it is refused, adding nothing, like one the distribution cannot
\* load from files.
C23_FilesystemRelativeOnlyPlacesSharedLibraryAtPrefix ==
    AddedUnderFilesystemRelativeOnly =>
        /\ (file_loadable /\ Module.shared_library # NoValue) => PlacedAtPolicyPrefixOnly
        /\ (~file_loadable \/ Module.shared_library = NoValue) => (~last.ok /\ Self = Pre)

C23_Witness ==
    /\ AddedUnderFilesystemRelativeOnly
    /\ file_loadable
    /\ Module.shared_library # NoValue
    /\ Module.link_libraries # <<>>
    /\ policy.prefix = "ext"
    /\ resources[ModuleName].relative_path_extension_module_shared_library = "ext"

----------------------------------------------------------------------------
(* User-supplied modules under the fallback policy *)

AddedDynamicUnderFallbackPolicy ==
    /\ Called
    /\ AddedDynamicExtensionModule
    /\ policy.kind = "PreferInMemoryFallbackFilesystemRelative"
    /\ Module.shared_library # NoValue

AttemptedPlacements == {last.attempts[i].placement : i \in DOMAIN last.attempts}
InMemoryNotAchieved ==
    \/ ~supports_in_memory
    \/ \E i \in DOMAIN last.attempts :
        last.attempts[i].placement = "in-memory" /\ ~last.attempts[i].ok

\* C24: add_dynamic_extension_module under
\* PreferInMemoryFallbackFilesystemRelative(prefix) attempts the in-memory
\* placement only with the capability of loading from memory; when the
\* in-memory placement is not achieved, for want of the capability or because
\* the attempt failed, and the distribution loads extension modules from
\* files, the module is tried at RelativePath(prefix); the call fails only
\* when no placement succeeded.
C24_UserModuleFallsBackToRelativePath ==
    AddedDynamicUnderFallbackPolicy =>
        /\ "in-memory" \in AttemptedPlacements => supports_in_memory
        /\ (InMemoryNotAchieved /\ file_loadable) => "relative-path" \in AttemptedPlacements
        /\ ~last.ok => PlacementCount(ModuleName) = 0
        /\ last.ok => PlacementCount(ModuleName) = 1

----------------------------------------------------------------------------
(* Build states of distribution modules *)

AddedBuiltinDistributionExtensionModule ==
    Called /\ last.op = "add_builtin_distribution_extension_module"
BuildState == extension_module_states[ModuleName]
LinkCategorySets(state) ==
    <<state.link_frameworks, state.link_system_libraries,
      state.link_static_libraries, state.link_dynamic_libraries>>
PairwiseDisjoint(sets) ==
    \A i, j \in DOMAIN sets : i # j => sets[i] \cap sets[j] = {}
\* the categories a module's declared dependencies put the library name in
DeclaredCategories(module, name) ==
    {c \in {"framework", "system", "static", "dynamic"} :
        \E i \in DOMAIN module.link_libraries :
            /\ module.link_libraries[i].name = name
            /\ \/ c = "framework" /\ module.link_libraries[i].framework
               \/ c = "system" /\ module.link_libraries[i].system
               \/ c = "static" /\ module.link_libraries[i].static_library # NoValue
               \/ c = "dynamic" /\ module.link_libraries[i].dynamic_library # NoValue}

\* C25 as stated: the build state add_builtin_distribution_extension_module
\* stores has pairwise disjoint framework, system, static and dynamic library
\* sets, whatever the declared link dependencies.
C25_LinkCategorySetsDisjoint ==
    AddedBuiltinDistributionExtensionModule =>
        PairwiseDisjoint(LinkCategorySets(BuildState))

\* C25 as amended: the four sets are pairwise disjoint when the declared link
\* dependencies put no library name in two categories, and a name is in two
\* of the sets only when they do.
C25_LinkCategorySetsDisjointForSingleCategoryNames ==
    AddedBuiltinDistributionExtensionModule =>
        ((\A name \in LibNames : Cardinality(DeclaredCategories(Module, name)) <= 1)
            <=> PairwiseDisjoint(LinkCategorySets(BuildState)))

C25_Witness ==
    /\ AddedBuiltinDistributionExtensionModule
    /\ Len(Module.link_libraries) = 2
    /\ BuildState.link_frameworks = {"b"}
    /\ BuildState.link_dynamic_libraries = {"z"}
    /\ BuildState.link_static_libraries = {}

NamesDeclared(module, category) ==
    {name \in LibNames : category \in DeclaredCategories(module, name)}

\* C26: add_builtin_distribution_extension_module always succeeds and stores,
\* under the module's name, its init_fn, its object files (none for a
\* builtin_default module), the names declared framework, system, with a
\* static library and with a dynamic library in the four link sets, and an
\* empty external set; every other build state is what it was, and a module
\* without dependencies and object files gets the entry with every collection empty.
C26_BuiltinDistributionAddStoresBuildState ==
    AddedBuiltinDistributionExtensionModule =>
        /\ last.ok
        /\ DOMAIN extension_module_states = DOMAIN Pre.extension_module_states \cup {ModuleName}
        /\ \A n \in DOMAIN Pre.extension_module_states \ {ModuleName} :
                extension_module_states[n] = Pre.extension_module_states[n]
        /\ BuildState.init_fn = Module.init_fn
        /\ BuildState.link_object_files =
                (IF Module.builtin_default THEN <<>> ELSE Module.object_file_data)
        /\ BuildState.link_frameworks = NamesDeclared(Module, "framework")
        /\ BuildState.link_system_libraries = NamesDeclared(Module, "system")
        /\ BuildState.link_static_libraries = NamesDeclared(Module, "static")
        /\ BuildState.link_dynamic_libraries = NamesDeclared(Module, "dynamic")
        /\ BuildState.link_external_libraries = {}
        /\ (Module.link_libraries = <<>> /\ Module.object_file_data = <<>> =>
                BuildState = [init_fn |-> Module.init_fn,
                              link_object_files |-> <<>>,
                              link_frameworks |-> {},
                              link_system_libraries |-> {},
                              link_static_libraries |-> {},
                              link_dynamic_libraries |-> {},
                              link_external_libraries |-> {}])

C26_Witness ==
    /\ AddedBuiltinDistributionExtensionModule
    /\ Module.builtin_default
    /\ Module.object_file_data # <<>>
    /\ BuildState.link_object_files = <<>>
    /\ BuildState.link_system_libraries = {"b"}
    /\ BuildState.link_static_libraries = {"z"}

----------------------------------------------------------------------------
(* Build states of user-supplied modules *)

AddedBuiltinExtensionModuleWithObjectFiles ==
    /\ pc \in {"collect", "packaged"}
    /\ last.op = "add_builtin_extension_module"
    /\ Module.object_file_data # <<>>

\* C27: add_builtin_extension_module on a module with object file data
\* succeeds and stores one build state, under the module's name: init_fn and
\* the object files copied (builtin_default or not), every declared link
\* library name in link_external_libraries, the framework, system, static
\* and dynamic sets empty; the other build states are what they were.
C27_BuiltinAddStoresExternalLibraries ==
    AddedBuiltinExtensionModuleWithObjectFiles =>
        /\ last.ok
        /\ DOMAIN extension_module_states = DOMAIN Pre.extension_module_states \cup {ModuleName}
        /\ \A n \in DOMAIN Pre.extension_module_states \ {ModuleName} :
                extension_module_states[n] = Pre.extension_module_states[n]
        /\ extension_module_states[ModuleName] =
                [init_fn |-> Module.init_fn,
                 link_object_files |-> Module.object_file_data,
                 link_frameworks |-> {},
                 link_system_libraries |-> {},
                 link_static_libraries |-> {},
                 link_dynamic_libraries |-> {},
                 link_external_libraries |->
                    {Module.link_libraries[i].name : i \in DOMAIN Module.link_libraries}]

C27_Witness ==
    /\ AddedBuiltinExtensionModuleWithObjectFiles
    /\ Module.builtin_default
    /\ Pre.extension_module_states = EmptyMap
    /\ DOMAIN extension_module_states = {"a"}
    /\ extension_module_states["a"].link_object_files = <<"a1", "a2">>
    /\ extension_module_states["a"].link_external_libraries = {"b", "z"}

----------------------------------------------------------------------------
(* Library dependencies of distribution modules *)

AddedInMemoryDistributionExtensionModule ==
    Called /\ last.op = "add_in_memory_distribution_extension_module" /\ last.ok
AddedRelativePathDistributionExtensionModule ==
    Called /\ last.op = "add_relative_path_distribution_extension_module" /\ last.ok
DynamicDependencyNames == NamesDeclared(Module, "dynamic")
DependencyNamesListed ==
    LET depends == resources[ModuleName].shared_library_dependency_names
    IN {depends[i] : i \in DOMAIN depends}

\* C28: a successful add_in_memory_distribution_extension_module registers
\* every dependency that has dynamic library data as a shared library held in
\* memory and lists exactly those names as the module's dependencies; a
\* successful add_relative_path_distribution_extension_module registers them
\* at the relative path of the module's prefix; the record of a library
\* without dynamic library data (other than the module's own) is left as it
\* was by both.
C28_DynamicDependenciesRegistered ==
    /\ AddedInMemoryDistributionExtensionModule =>
        /\ HasInMemoryPlacement(ModuleName)
        /\ DependencyNamesListed = DynamicDependencyNames
        /\ \A name \in DynamicDependencyNames :
            /\ name \in iter_resources(Self)
            /\ resources[name].in_memory_shared_library
            /\ resources[name].relative_path_shared_library = NoValue
        /\ \A name \in LibNames \ (DynamicDependencyNames \cup {ModuleName}) :
                ResourceUntouched(name)
    /\ AddedRelativePathDistributionExtensionModule =>
        /\ resources[ModuleName].relative_path_extension_module_shared_library = last.arg
        /\ \A name \in DynamicDependencyNames :
            /\ name \in iter_resources(Self)
            /\ resources[name].relative_path_shared_library = last.arg
            /\ ~resources[name].in_memory_shared_library
        /\ \A name \in LibNames \ (DynamicDependencyNames \cup {ModuleName}) :
                ResourceUntouched(name)

C28_Witness ==
    /\ AddedRelativePathDistributionExtensionModule
    /\ last.arg = "ext"
    /\ Len(Module.link_libraries) = 2
    /\ DynamicDependencyNames = {"z"}
    /\ NamesDeclared(Module, "static") = {"b"}
    /\ resources["z"].relative_path_shared_library = "ext"
    /\ "b" \notin iter_resources(Self)

----------------------------------------------------------------------------
(* Failed adds *)

ExtensionModuleAdds ==
    {"add_in_memory_distribution_extension_module",
     "add_relative_path_distribution_extension_module",
     "add_builtin_extension_module"}
ExtensionModuleAddFailed ==
    /\ pc = "resources"
    /\ last.op \in ExtensionModuleAdds
    /\ ~last.ok

\* C29: when add_in_memory_distribution_extension_module,
\* add_relative_path_distribution_extension_module or
\* add_builtin_extension_module of PrePackagedResources returns an error,
\* the resource mapping and the build states are what they were before the call.
C29_FailedAddChangesNothing ==
    ExtensionModuleAddFailed =>
        /\ resources = Pre.resources
        /\ extension_module_states = Pre.extension_module_states

\* the add failed at the registration of a dependency, after an earlier add succeeded
C29_Witness ==
    /\ ExtensionModuleAddFailed
    /\ last.op = "add_in_memory_distribution_extension_module"
    /\ Module.shared_library # NoValue
    /\ DynamicDependencyNames = {"z"}
    /\ last.err = "policy does not allow location"
    /\ Pre.resources # EmptyMap
    /\ Pre.extension_module_states # EmptyMap

----------------------------------------------------------------------------
(* The sentinel and complete extractions *)

\* invocation p found no sentinel and went through the members, the symlink
\* copies and the permission walk
ExtractionCompleted(p) ==
    /\ frames[p].found = "absent"
    /\ \/ frames[p].pc = "from_directory"
       \/ frames[p].pc = "done" /\ frames[p].err \in {NoValue, "PYTHON.json does not exist"}
\* the directory held the tree of a completed earlier extraction from the start
StartedFromCachedTree == exists(fs, extract_dir \o <<"python", "site.py">>)
SomeExtractionCompleted ==
    StartedFromCachedTree \/ \E p \in Invocations : ExtractionCompleted(p)

\* C30: over any sequence of from_tar invocations on one directory, outside
\* the locked block python/PYTHON.json exists only if some extraction ran to
\* completion, and an invocation that finds the sentinel and skips the
\* extraction does so only after some extraction ran to completion.
C30_SentinelOnlyAfterCompleteExtraction ==
    pc = "extract" =>
        /\ (lock = NoValue /\ exists(fs, test_path)) => SomeExtractionCompleted
        /\ \A p \in Invocations : frames[p].found = "present" => SomeExtractionCompleted

====
